---- MODULE Spec2Model ----
(***************************************************************************)
(* AutonomousVault backend: the cron_schedules table with its helper       *)
(* functions (get_due_schedules, record_schedule_success,                  *)
(* record_schedule_error), the cron-trigger edge function that drives      *)
(* them, and the execution-session custodian (Tier B / Tier C password     *)
(* resolution).                                                            *)
(*                                                                         *)
(* Time is a discrete clock `now`.  Every RPC / SQL statement is one       *)
(* atomic step that reads NOW() = now; the awaits of the edge functions    *)
(* are the places where other steps interleave.                            *)
(***************************************************************************)
EXTENDS Integers, Sequences, FiniteSets

(* ------------------------------------------------------------------ *)
(* Bounds                                                               *)
(* ------------------------------------------------------------------ *)

\* The clock runs 0..MaxTime.
MaxTime == 2

\* Largest interval_seconds an owner supplies.
MaxInterval == 2

\* Largest max_consecutive_errors an owner supplies.
MaxErrLimit == 3

ScheduleIds == {"s1", "s2"}
Users == {"u1", "u2"}
Invocations == {"i1", "i2"}

\* cron_schedules.user_id of each schedule id: both schedules are u1's,
\* under different schedule_name.
ScheduleUser(s) == "u1"


(* ------------------------------------------------------------------ *)
(* SQL values                                                           *)
(* ------------------------------------------------------------------ *)

\* A nullable column holds NULL or Some(v).
NULL == <<>>
Some(v) == <<v>>
Val(x) == x[1]


\* The message executeSchedule throws when the key row is missing.
NoKeyMessage == "No encrypted key found for user"


VARIABLES
    now,             \* the clock, NOW() / new Date()
    cron_schedules,  \* ScheduleIds -> row (live = FALSE: no such row)
    encrypted_keys,  \* Users -> key record of key_name 'hyperliquid'
    CRON_SECRET,     \* Deno.env CRON_SECRET: NULL or Some(secret)
    request,         \* Invocations -> x-cron-secret header of the running request
    pc,              \* Invocations -> position of the cron-trigger request
    batch,           \* Invocations -> dueSchedules, as fetched
    idx,             \* Invocations -> index of the schedule being run
    pending,         \* Invocations -> outcome of the run, not yet recorded
    results,         \* Invocations -> ExecutionResult list
    response,        \* Invocations -> the HTTP response (NULL until sent)
    authorized,      \* history: the owner's write put enabled = true
    streak,          \* history: record_schedule_error calls since the last reset
    armed,           \* history: the streak started enabled with no errors
    guard,           \* history: latest now + interval_seconds recorded
    execution_sessions,  \* SessionIds -> row (live = FALSE: no such row)
    call,            \* Resolvers -> the running password resolution
    revokeDone,      \* history: ids for which revokeSession has returned true
    vault,           \* the running withDecryptedKey call
    trade,           \* the running executeTrade call
    deleted_count,   \* what the last cleanup_expired_sessions returned
    cycle            \* the running dealer-cycle request

schedVars == <<cron_schedules, pc, batch, idx, pending, results, response,
               authorized, streak, armed, guard>>
sessVars == <<execution_sessions, call, revokeDone>>
vars == <<now, cron_schedules, encrypted_keys, CRON_SECRET, request, pc, batch, idx,
          pending, results, response, authorized, streak, armed, guard,
          execution_sessions, call, revokeDone, vault, trade, deleted_count,
          cycle>>

(* ------------------------------------------------------------------ *)
(* cron_schedules                                                       *)
(* ------------------------------------------------------------------ *)

\* No row with this id.
NoRow ==
    [live |-> FALSE, user_id |-> "", enabled |-> FALSE, interval_seconds |-> 0,
     coins |-> <<>>, last_run_at |-> NULL, next_run_at |-> NULL,
     run_count |-> 0, last_error |-> NULL, consecutive_errors |-> 0,
     max_consecutive_errors |-> 0]

\* INSERT INTO cron_schedules: the column defaults, with the values the
\* owner supplies.  en is "default" when the owner leaves enabled out.
NewRowDefaultTrue(s, en, iv, mx, cn) ==
    [live |-> TRUE, user_id |-> ScheduleUser(s),
     enabled |-> IF en = "default" THEN TRUE ELSE (en = "true"),
     interval_seconds |-> iv, coins |-> cn,
     last_run_at |-> NULL, next_run_at |-> NULL, run_count |-> 0,
     last_error |-> NULL, consecutive_errors |-> 0,
     max_consecutive_errors |-> mx]

NewRow(s, en, iv, mx, cn) ==
    [live |-> TRUE, user_id |-> ScheduleUser(s),
     enabled |-> IF en = "default" THEN FALSE ELSE (en = "true"),
     interval_seconds |-> iv, coins |-> cn,
     last_run_at |-> NULL, next_run_at |-> NULL, run_count |-> 0,
     last_error |-> NULL, consecutive_errors |-> 0,
     max_consecutive_errors |-> mx]

\* The WHERE clause of get_due_schedules, without the enabled test.
DueRowIgnoringEnabled(row, t) ==
    /\ row.live
    /\ row.consecutive_errors < row.max_consecutive_errors
    /\ (row.next_run_at = NULL \/ Val(row.next_run_at) <= t)

\* The WHERE clause of get_due_schedules.
DueRow(row, t) ==
    /\ row.live
    /\ row.enabled = TRUE
    /\ row.consecutive_errors < row.max_consecutive_errors
    /\ (row.next_run_at = NULL \/ Val(row.next_run_at) <= t)

\* One returned row of get_due_schedules.
DueRecord(tbl, s) ==
    [schedule_id |-> s, user_id |-> tbl[s].user_id, coins |-> tbl[s].coins,
     interval_seconds |-> tbl[s].interval_seconds]

\* get_due_schedules(): the set of returned rows at NOW() = t.
get_due_schedules(tbl, t) ==
    {DueRecord(tbl, s) : s \in {x \in ScheduleIds : DueRow(tbl[x], t)}}

\* The UPDATE of record_schedule_success on one row.
SuccessRowKeepErrors(row, t) ==
    [row EXCEPT !.last_run_at = Some(t),
                !.next_run_at = Some(t + row.interval_seconds),
                !.run_count = row.run_count + 1,
                !.last_error = NULL]

SuccessRow(row, t) ==
    [row EXCEPT !.last_run_at = Some(t),
                !.next_run_at = Some(t + row.interval_seconds),
                !.run_count = row.run_count + 1,
                !.consecutive_errors = 0,
                !.last_error = NULL]

\* record_schedule_success(p_schedule_id) at NOW() = t.
record_schedule_success(tbl, id, t) ==
    [s \in ScheduleIds |->
        IF s = id /\ tbl[s].live THEN SuccessRow(tbl[s], t) ELSE tbl[s]]

\* The UPDATE of record_schedule_error on one row; every right-hand side
\* reads the row as it was before the UPDATE.
ErrorRowOffByOne(row, msg, t) ==
    [row EXCEPT !.last_error = Some(msg),
                !.consecutive_errors = row.consecutive_errors + 1,
                !.enabled = IF row.consecutive_errors >= row.max_consecutive_errors
                            THEN FALSE ELSE row.enabled,
                !.next_run_at = Some(t + row.interval_seconds)]

ErrorRowNoBackoff(row, msg, t) ==
    [row EXCEPT !.last_error = Some(msg),
                !.consecutive_errors = row.consecutive_errors + 1,
                !.enabled = IF row.consecutive_errors + 1 >= row.max_consecutive_errors
                            THEN FALSE ELSE row.enabled]

ErrorRowReEnables(row, msg, t) ==
    [row EXCEPT !.last_error = Some(msg),
                !.consecutive_errors = row.consecutive_errors + 1,
                !.enabled = IF row.consecutive_errors + 1 >= row.max_consecutive_errors
                            THEN FALSE ELSE TRUE,
                !.next_run_at = Some(t + row.interval_seconds)]

ErrorRow(row, msg, t) ==
    [row EXCEPT !.last_error = Some(msg),
                !.consecutive_errors = row.consecutive_errors + 1,
                !.enabled = IF row.consecutive_errors + 1 >= row.max_consecutive_errors
                            THEN FALSE ELSE row.enabled,
                !.next_run_at = Some(t + row.interval_seconds)]

\* record_schedule_error(p_schedule_id, p_error) at NOW() = t.
record_schedule_errorEveryRow(tbl, id, msg, t) ==
    [s \in ScheduleIds |-> IF tbl[s].live THEN ErrorRow(tbl[s], msg, t) ELSE tbl[s]]

record_schedule_error(tbl, id, msg, t) ==
    [s \in ScheduleIds |->
        IF s = id /\ tbl[s].live THEN ErrorRow(tbl[s], msg, t) ELSE tbl[s]]

(* ------------------------------------------------------------------ *)
(* Initial state: the migrations have run, the tables are empty.        *)
(* ------------------------------------------------------------------ *)

NoKey == [live |-> FALSE, encrypted_password |-> NULL]

\* No execution_sessions row with this id.
NoSession ==
    [live |-> FALSE, user_id |-> "", token |-> NULL, expires_at |-> 0,
     revoked |-> FALSE, last_used_at |-> NULL, use_count |-> 0]

\* No resolution is running.
\* keyData, session and result are the locals of getExecutionPassword and
\* validateExecutionSession; queriedAt, revokedAtQuery and revokedBefore
\* capability is what hasExecutionCapability returns; logged is what the
\* resolution has written to the log with console.error; the rest
\* are history: the time get_active_session ran, the revoked flag of the
\* row it returned, and the sessions revoked before the resolution started.
Idle ==
    [pc |-> "idle", entry |-> "", userId |-> "", keyData |-> NULL,
     session |-> NULL, result |-> NULL, capability |-> NULL, logged |-> {},
     queriedAt |-> NULL,
     revokedAtQuery |-> FALSE, revokedBefore |-> {}]

SessionIds == {"x1", "x2"}
Resolvers == {"r1"}

\* No withDecryptedKey call is running.  decryptedKey is the local of that
\* name; passed lists the keys the operation was invoked with; outcome is
\* what the caller receives, a returned value or a thrown error.
NoCall ==
    [pc |-> "idle", encryptedBlob |-> NULL, password |-> "", salt |-> NULL,
     decryptedKey |-> NULL, passed |-> <<>>, produced |-> NULL,
     outcome |-> NULL]

\* No executeTrade call is running.  assetIndex, nonce and signature are
\* the locals of those names, cloid is options.cloid (NULL: undefined) and
\* meta the answer of the metadata endpoint, if asked; signed counts the
\* signatures made, submitted lists the requests posted to the order
\* endpoint, reply is the exchange's answer to the last.  earlier is
\* history: the nonces of the calls before this one.
NoTrade ==
    [pc |-> "idle", coin |-> "", cloid |-> NULL, meta |-> NULL, assetIndex |-> NULL,
     nonce |-> NULL, signature |-> NULL, signed |-> 0, submitted |-> <<>>,
     reply |-> NULL, result |-> NULL, earlier |-> {}]

\* No dealer-cycle request is running.  executeTradesIfSignal,
\* encryptedKey (with its encryptionSalt) and executionPassword are the
\* members of the request body (NULL: left out); decisions is the list of
\* that name and idx the position of the loop in it.
NoCycle ==
    [pc |-> "idle", executeTradesIfSignal |-> FALSE, encryptedKey |-> NULL,
     executionPassword |-> NULL, decisions |-> <<>>, idx |-> 0, response |-> NULL]

TablesInit ==
    /\ now = 0
    /\ cron_schedules = [s \in ScheduleIds |-> NoRow]
    /\ encrypted_keys = [u \in Users |-> NoKey]
    /\ execution_sessions = [x \in SessionIds |-> NoSession]
    /\ call = [r \in Resolvers |-> Idle]
    /\ revokeDone = {}

SchedInit ==
    /\ TablesInit
    /\ CRON_SECRET \in {NULL, Some("secret")}
    /\ request = [i \in Invocations |-> NULL]
    /\ pc = [i \in Invocations |-> "idle"]
    /\ batch = [i \in Invocations |-> <<>>]
    /\ idx = [i \in Invocations |-> 0]
    /\ pending = [i \in Invocations |-> NULL]
    /\ results = [i \in Invocations |-> <<>>]
    /\ response = [i \in Invocations |-> NULL]
    /\ authorized = [s \in ScheduleIds |-> FALSE]
    /\ streak = [s \in ScheduleIds |-> 0]
    /\ armed = [s \in ScheduleIds |-> FALSE]
    /\ guard = [s \in ScheduleIds |-> NULL]
    /\ vault = NoCall
    /\ trade = NoTrade
    /\ deleted_count = NULL
    /\ cycle = NoCycle

Init == SchedInit

(* ------------------------------------------------------------------ *)
(* The clock                                                            *)
(* ------------------------------------------------------------------ *)

Tick ==
    /\ now < MaxTime
    /\ now' = now + 1
    /\ UNCHANGED <<encrypted_keys, CRON_SECRET, cycle, deleted_count, vault, trade, request>>
    /\ UNCHANGED schedVars
    /\ UNCHANGED sessVars

(* ------------------------------------------------------------------ *)
(* The owner, through the row-level-security policies                   *)
(* ------------------------------------------------------------------ *)

\* INSERT of a schedule by its owner.  The interval_seconds and
\* max_consecutive_errors supplied are both ends of the range for s1 and
\* one value for s2; the coins array is one coin.
OwnerInsert(s) ==
    /\ ~cron_schedules[s].live
    /\ \E en \in {"default", "true", "false"},
          iv \in (IF s = "s1" THEN {1, MaxInterval} ELSE {1}),
          mx \in (IF s = "s1" THEN {1, MaxErrLimit} ELSE {MaxErrLimit}),
          cn \in {<<"BTC">>} :
        /\ cron_schedules' = [cron_schedules EXCEPT ![s] = NewRow(s, en, iv, mx, cn)]
        /\ authorized' = [authorized EXCEPT ![s] = (en = "true")]
        /\ armed' = [armed EXCEPT ![s] = cron_schedules'[s].enabled]
    /\ streak' = [streak EXCEPT ![s] = 0]
    /\ guard' = [guard EXCEPT ![s] = NULL]
    /\ UNCHANGED <<now, encrypted_keys, CRON_SECRET, cycle, deleted_count, vault, trade, request, pc, batch, idx, pending,
                   results, response>>
    /\ UNCHANGED sessVars

\* UPDATE cron_schedules SET enabled = b by the owner.
OwnerSetEnabled(s) ==
    /\ cron_schedules[s].live
    /\ \E b \in BOOLEAN :
        /\ b # cron_schedules[s].enabled
        /\ cron_schedules' = [cron_schedules EXCEPT ![s].enabled = b]
        /\ authorized' = [authorized EXCEPT ![s] = b]
        /\ armed' = [armed EXCEPT ![s] = b /\ cron_schedules[s].consecutive_errors = 0]
    /\ streak' = [streak EXCEPT ![s] = 0]
    /\ guard' = [guard EXCEPT ![s] = NULL]
    /\ UNCHANGED <<now, encrypted_keys, CRON_SECRET, cycle, deleted_count, vault, trade, request, pc, batch, idx, pending,
                   results, response>>
    /\ UNCHANGED sessVars

\* The owner stores or removes the 'hyperliquid' key record.
OwnerSetKey(u) ==
    /\ encrypted_keys' = [encrypted_keys EXCEPT ![u].live = ~encrypted_keys[u].live]
    /\ UNCHANGED <<now, CRON_SECRET, cycle, deleted_count, vault, trade, request>>
    /\ UNCHANGED schedVars
    /\ UNCHANGED sessVars

(* ------------------------------------------------------------------ *)
(* cron-trigger                                                         *)
(* ------------------------------------------------------------------ *)


\* serve: !cronSecret || cronSecret !== expectedSecret
RejectedNoCheck(h) == FALSE

Rejected(h) == h = NULL \/ h # CRON_SECRET

\* All orders in which a set of rows can come back from the database.
Orderings(S) ==
    {q \in [1..Cardinality(S) -> S] : \A a, b \in 1..Cardinality(S) : q[a] = q[b] => a = b}

Unauthorized == [status |-> 401, executed |-> 0, successCount |-> 0, failureCount |-> 0]
FetchFailed == [status |-> 500, executed |-> 0, successCount |-> 0, failureCount |-> 0]
NoSchedulesDue == [status |-> 200, executed |-> 0, successCount |-> 0, failureCount |-> 0]

CountSuccess(rs) == Cardinality({k \in 1..Len(rs) : rs[k].success})
CountFailure(rs) == Cardinality({k \in 1..Len(rs) : ~rs[k].success})

\* The jsonResponse at the end of serve.
Executed(rs) ==
    [status |-> 200, executed |-> Len(rs), successCount |-> CountSuccess(rs),
     failureCount |-> CountFailure(rs)]

\* serve, up to the authentication check; h is the x-cron-secret header
\* the request carries (NULL: no header).
Serve(i) ==
    /\ pc[i] = "idle"
    /\ \E h \in {NULL, Some("secret"), Some("wrong")} :
        /\ request' = [request EXCEPT ![i] = h]
        /\ IF Rejected(h)
           THEN /\ response' = [response EXCEPT ![i] = Some(Unauthorized)]
                /\ pc' = [pc EXCEPT ![i] = "done"]
           ELSE /\ pc' = [pc EXCEPT ![i] = "fetch"]
                /\ UNCHANGED response
    /\ UNCHANGED <<now, cron_schedules, encrypted_keys, CRON_SECRET, cycle, deleted_count, vault, trade, batch, idx,
                   pending, results, authorized, streak, armed, guard>>
    /\ UNCHANGED sessVars

\* serve: supabase.rpc('get_due_schedules') and the two early returns.
Fetch(i) ==
    /\ pc[i] = "fetch"
    /\ \/ /\ response' = [response EXCEPT ![i] = Some(FetchFailed)]
          /\ pc' = [pc EXCEPT ![i] = "done"]
          /\ UNCHANGED <<batch, idx>>
       \/ \E q \in Orderings(get_due_schedules(cron_schedules, now)) :
            IF Len(q) = 0
            THEN /\ response' = [response EXCEPT ![i] = Some(NoSchedulesDue)]
                 /\ pc' = [pc EXCEPT ![i] = "done"]
                 /\ UNCHANGED <<batch, idx>>
            ELSE /\ batch' = [batch EXCEPT ![i] = q]
                 /\ idx' = [idx EXCEPT ![i] = 1]
                 /\ pc' = [pc EXCEPT ![i] = "exec"]
                 /\ UNCHANGED response
    /\ UNCHANGED <<now, cron_schedules, encrypted_keys, CRON_SECRET, cycle, deleted_count, vault, trade, request, pending,
                   results, authorized, streak, armed, guard>>
    /\ UNCHANGED sessVars

\* The schedule the invocation is running.
Current(i) == batch[i][idx[i]]

\* executeSchedule, from its start to the end of runAnalysisOnly: the key
\* read, the settings read (never fatal) and the analysis stub.
\* calls lists what the run has called on the way.
KeyRead == {"encrypted_keys.select"}
AnalysisOnly == {"encrypted_keys.select", "user_settings.select", "runAnalysisOnly"}

RunOutcomeIgnoresKey(sched) ==
    [success |-> TRUE, error |-> NULL, calls |-> AnalysisOnly]

RunOutcomeTrades(sched) ==
    IF ~encrypted_keys[sched.user_id].live
    THEN [success |-> FALSE, error |-> Some(NoKeyMessage), calls |-> KeyRead]
    ELSE [success |-> TRUE, error |-> NULL,
          calls |-> AnalysisOnly \cup {"withDecryptedKey", "executeTrade"}]

RunOutcome(sched) ==
    IF ~encrypted_keys[sched.user_id].live
    THEN [success |-> FALSE, error |-> Some(NoKeyMessage), calls |-> KeyRead]
    ELSE [success |-> TRUE, error |-> NULL, calls |-> AnalysisOnly]

\* executeSchedule: the read of user_settings between the key read and the
\* analysis.  settingsError is what the read reports when the owner has no
\* settings row; the run only warns and goes on with the defaults.
SettingsReadThrows(outcome, settingsError) ==
    IF outcome.success /\ settingsError
    THEN [success |-> FALSE, error |-> Some("No settings found"),
          calls |-> outcome.calls, settings |-> "missing"]
    ELSE [success |-> outcome.success, error |-> outcome.error,
          calls |-> outcome.calls,
          settings |-> IF outcome.success THEN "found" ELSE "unread"]

SettingsRead(outcome, settingsError) ==
    [success |-> outcome.success, error |-> outcome.error, calls |-> outcome.calls,
     settings |-> IF "user_settings.select" \notin outcome.calls THEN "unread"
                  ELSE IF settingsError THEN "missing" ELSE "found"]

executeSchedule(i) ==
    /\ pc[i] = "exec"
    /\ \E settingsError \in BOOLEAN :
          pending' = [pending EXCEPT ![i] =
                         Some(SettingsRead(RunOutcome(Current(i)), settingsError))]
    /\ pc' = [pc EXCEPT ![i] = "record"]
    /\ UNCHANGED <<now, cron_schedules, encrypted_keys, CRON_SECRET, cycle, deleted_count, vault, trade, request, batch, idx,
                   results, response, authorized, streak, armed, guard>>
    /\ UNCHANGED sessVars

\* The ExecutionResult executeSchedule returns.
ExecutionResult(sched, outcome) ==
    [scheduleId |-> sched.schedule_id, userId |-> sched.user_id,
     success |-> outcome.success, error |-> outcome.error]

\* The table after the RPC that records the outcome.
RecordedAsSuccess(tbl, id, outcome, t) == record_schedule_success(tbl, id, t)

Recorded(tbl, id, outcome, t) ==
    IF outcome.success
    THEN record_schedule_success(tbl, id, t)
    ELSE record_schedule_error(tbl, id, Val(outcome.error), t)

\* executeSchedule: the record_schedule_success / record_schedule_error RPC
\* and the return; then the loop of serve goes on, or serve responds.
\* The RPC is taken to reach the database: executeSchedule does not look
\* at the error the call may return.
RecordOutcome(i) ==
    /\ pc[i] = "record"
    /\ LET sched == Current(i)
           id == sched.schedule_id
           outcome == Val(pending[i])
           row == cron_schedules[id]
           after == Recorded(cron_schedules, id, outcome, now)
           rs == Append(results[i], ExecutionResult(sched, outcome))
       IN /\ cron_schedules' = after
          /\ results' = [results EXCEPT ![i] = rs]
          /\ pending' = [pending EXCEPT ![i] = NULL]
          /\ authorized' = [authorized EXCEPT ![id] = authorized[id] /\ after[id].enabled]
          /\ IF ~row.live
             THEN UNCHANGED <<streak, armed, guard>>
             ELSE /\ streak' = [streak EXCEPT ![id] = IF outcome.success THEN 0 ELSE streak[id] + 1]
                  /\ armed' = [armed EXCEPT ![id] = IF outcome.success THEN after[id].enabled ELSE armed[id]]
                  /\ guard' = [guard EXCEPT ![id] =
                                 IF guard[id] = NULL
                                 THEN Some(now + row.interval_seconds)
                                 ELSE IF Val(guard[id]) >= now + row.interval_seconds
                                 THEN guard[id]
                                 ELSE Some(now + row.interval_seconds)]
          /\ IF idx[i] < Len(batch[i])
             THEN /\ idx' = [idx EXCEPT ![i] = idx[i] + 1]
                  /\ pc' = [pc EXCEPT ![i] = "exec"]
                  /\ UNCHANGED response
             ELSE /\ response' = [response EXCEPT ![i] = Some(Executed(rs))]
                  /\ pc' = [pc EXCEPT ![i] = "done"]
                  /\ UNCHANGED idx
    /\ UNCHANGED <<now, encrypted_keys, CRON_SECRET, cycle, deleted_count, vault, trade, request, batch>>
    /\ UNCHANGED sessVars

\* The response has been sent; the request is over.
Return(i) ==
    /\ pc[i] = "done"
    /\ pc' = [pc EXCEPT ![i] = "idle"]
    /\ batch' = [batch EXCEPT ![i] = <<>>]
    /\ idx' = [idx EXCEPT ![i] = 0]
    /\ results' = [results EXCEPT ![i] = <<>>]
    /\ response' = [response EXCEPT ![i] = NULL]
    /\ request' = [request EXCEPT ![i] = NULL]
    /\ UNCHANGED <<now, cron_schedules, encrypted_keys, CRON_SECRET, cycle, deleted_count, vault, trade, pending,
                   authorized, streak, armed, guard>>
    /\ UNCHANGED sessVars

(* ------------------------------------------------------------------ *)
(* The scheduling specification                                         *)
(* ------------------------------------------------------------------ *)

\* One cron-trigger request at a time, over both schedules.
Next ==
    \/ Tick
    \/ \E s \in ScheduleIds : OwnerInsert(s)
    \/ \E s \in ScheduleIds : OwnerSetEnabled(s)
    \/ OwnerSetKey("u1")
    \/ Serve("i1")
    \/ Fetch("i1")
    \/ executeSchedule("i1")
    \/ RecordOutcome("i1")
    \/ Return("i1")

Spec == Init /\ [][Next]_vars

\* Overlapping cron-trigger requests, over one schedule.
OverlapNext ==
    \/ Tick
    \/ OwnerInsert("s1")
    \/ OwnerSetEnabled("s1")
    \/ OwnerSetKey("u1")
    \/ \E i \in Invocations : Serve(i)
    \/ \E i \in Invocations : Fetch(i)
    \/ \E i \in Invocations : executeSchedule(i)
    \/ \E i \in Invocations : RecordOutcome(i)
    \/ \E i \in Invocations : Return(i)

OverlapSpec == Init /\ [][OverlapNext]_vars

(* ------------------------------------------------------------------ *)
(* execution_sessions and the Tier C column of encrypted_keys            *)
(* ------------------------------------------------------------------ *)

\* Most record_session_usage calls a session receives: a session that has
\* reached it is not picked again.
MaxUseCount == 2

\* The expires_at an owner gives a session: early or late for x1, late
\* for x2.
ExpiryTimes(x) == IF x = "x1" THEN {1, MaxTime} ELSE {MaxTime}

\* The password inside the token of session x, and the Tier C password.
SessionPassword(x) == IF x = "x1" THEN "pw-x1" ELSE "pw-x2"
PersistentPassword == "pw-persistent"

\* What an encrypted_session_token decodes to.  ok = FALSE: atob, AES-GCM
\* or JSON.parse throws.  The client builds the token, so the payload's
\* userId, password and expiresAt are whatever it put there.  text is
\* the decrypted text when it is JSON.parse that throws, "" otherwise.
GoodToken(x, u, e) ==
    [ok |-> TRUE, text |-> "", userId |-> u, password |-> SessionPassword(x),
     expiresAt |-> e]

\* A token that decrypts, to the bare password instead of a JSON payload.
RawToken(x) ==
    [ok |-> FALSE, text |-> SessionPassword(x), userId |-> "", password |-> "",
     expiresAt |-> 0]

Tokens(x, u, e) ==
    IF x = "x1"
    THEN {GoodToken(x, u, e),
          [GoodToken(x, u, e) EXCEPT !.password = ""],
          [GoodToken(x, u, e) EXCEPT !.expiresAt = 0],
          [GoodToken(x, u, e) EXCEPT !.userId = "u2"],
          [RawToken(x) EXCEPT !.text = ""]}
    ELSE {GoodToken(x, u, e)}

\* What an encrypted_password decodes to under the server secret.
StoredPasswords ==
    {[ok |-> TRUE, password |-> PersistentPassword],
     [ok |-> TRUE, password |-> ""],
     [ok |-> FALSE, password |-> ""]}

\* decryptSessionToken: the payload, or null.
decryptSessionToken(token) == IF token.ok THEN Some(token) ELSE NULL

\* What the error decryptSessionToken catches, and logs, quotes of the
\* decrypted text.  The message of JSON.parse's SyntaxError is left to
\* the engine: it may quote the text it rejects (V8: Unexpected token
\* 'h', "hunter2" is not valid JSON).  The other errors quote nothing.
TokenErrorQuotes(token) ==
    IF token.text # "" THEN {"", token.text} ELSE {""}

\* decryptStoredPassword: the password, or null.
decryptStoredPassword(blob) == IF blob.ok THEN Some(blob.password) ELSE NULL

\* JavaScript truthiness of a string | null.
Truthy(x) == x # NULL /\ Val(x) # ""

\* The WHERE clause of get_active_session.
ActiveRowIgnoringExpiry(row, u, t) ==
    /\ row.live
    /\ row.user_id = u
    /\ row.revoked = FALSE

ActiveRow(row, u, t) ==
    /\ row.live
    /\ row.user_id = u
    /\ row.revoked = FALSE
    /\ row.expires_at > t

\* get_active_session(p_user_id) at NOW() = t: the rows ORDER BY
\* expires_at DESC LIMIT 1 can return (several on a tie, none if no row
\* qualifies).
get_active_sessionAnyUsable(tbl, u, t) ==
    {x \in SessionIds : ActiveRow(tbl[x], u, t)}

get_active_session(tbl, u, t) ==
    LET usable == {x \in SessionIds : ActiveRow(tbl[x], u, t)}
    IN {x \in usable : \A y \in usable : tbl[y].expires_at <= tbl[x].expires_at}

\* The row as the RPC returns it.
SessionRecord(tbl, x) ==
    [session_id |-> x, encrypted_session_token |-> tbl[x].token,
     expires_at |-> tbl[x].expires_at]

\* record_session_usage(p_session_id) at NOW() = t.
record_session_usage(tbl, id, t) ==
    [x \in SessionIds |->
        IF x = id /\ tbl[x].live
        THEN [tbl[x] EXCEPT !.last_used_at = Some(t), !.use_count = tbl[x].use_count + 1]
        ELSE tbl[x]]

Invalid(msg) ==
    [valid |-> FALSE, password |-> NULL, error |-> Some(msg), sessionId |-> NULL,
     tier |-> ""]

Valid(password, id) ==
    [valid |-> TRUE, password |-> Some(password), error |-> NULL,
     sessionId |-> Some(id), tier |-> ""]

\* getExecutionPassword, after validateExecutionSession has returned.
FromSessionNoDefaultError(sessionResult) ==
    IF sessionResult.valid /\ Truthy(sessionResult.password)
    THEN [sessionResult EXCEPT !.tier = "session", !.sessionId = sessionResult.sessionId]
    ELSE [valid |-> FALSE, password |-> NULL, error |-> sessionResult.error,
          sessionId |-> sessionResult.sessionId, tier |-> "none"]

FromSession(sessionResult) ==
    IF sessionResult.valid /\ Truthy(sessionResult.password)
    THEN [sessionResult EXCEPT !.tier = "session", !.sessionId = sessionResult.sessionId]
    ELSE [valid |-> FALSE, password |-> NULL,
          error |-> IF Truthy(sessionResult.error)
                    THEN sessionResult.error
                    ELSE Some("No valid session or stored password"),
          sessionId |-> sessionResult.sessionId, tier |-> "none"]

\* What the entry point hands back for a validateExecutionSession result.
Finish(entry, sessionResult) ==
    IF entry = "validateExecutionSession" THEN sessionResult ELSE FromSession(sessionResult)

\* The owner inserts a session.  Session x1 is u1's; x2 is anyone's.
OwnerCreateSession(x) ==
    /\ ~execution_sessions[x].live
    /\ \E u \in (IF x = "x1" THEN {"u1"} ELSE Users), e \in ExpiryTimes(x) :
        \E tok \in Tokens(x, u, e) :
            execution_sessions' = [execution_sessions EXCEPT ![x] =
                [live |-> TRUE, user_id |-> u, token |-> Some(tok), expires_at |-> e,
                 revoked |-> FALSE, last_used_at |-> NULL, use_count |-> 0]]
    /\ UNCHANGED <<now, encrypted_keys, CRON_SECRET, cycle, deleted_count, vault, trade, request, call, revokeDone>>
    /\ UNCHANGED schedVars

\* revokeSession(sessionId): the UPDATE, or a store error that leaves the
\* row alone and makes revokeSession return false.
RevokedRowNoop(row) == row

RevokedRow(row) == [row EXCEPT !.revoked = TRUE]

revokeSession(x) ==
    /\ execution_sessions[x].live
    /\ \/ /\ execution_sessions' = [execution_sessions EXCEPT ![x] = RevokedRow(@)]
          /\ revokeDone' = revokeDone \cup {x}
       \/ /\ ~execution_sessions[x].revoked
          /\ UNCHANGED <<execution_sessions, revokeDone>>
    /\ UNCHANGED <<now, encrypted_keys, CRON_SECRET, cycle, deleted_count, vault, trade, request, call>>
    /\ UNCHANGED schedVars

\* INTERVAL '7 days' of cleanup_expired_sessions, in ticks of the clock.
Retention == 1

\* The WHERE clause of the DELETE of cleanup_expired_sessions at NOW() = t.
DeletableNoRetention(row, t) == row.expires_at < t \/ row.revoked = TRUE

Deletable(row, t) == row.expires_at < t - Retention \/ row.revoked = TRUE

\* cleanup_expired_sessions(), run by the periodic job.
cleanup_expired_sessions ==
    /\ \E x \in SessionIds : execution_sessions[x].live
    /\ execution_sessions' =
          [x \in SessionIds |->
              IF execution_sessions[x].live /\ Deletable(execution_sessions[x], now)
              THEN NoSession ELSE execution_sessions[x]]
    /\ deleted_count' =
          Some(Cardinality({x \in SessionIds : /\ execution_sessions[x].live
                                               /\ ~execution_sessions'[x].live}))
    /\ UNCHANGED <<now, encrypted_keys, CRON_SECRET, cycle, vault, trade, request, call, revokeDone>>
    /\ UNCHANGED schedVars

\* The clock past MaxTime, until the sessions are older than the retention
\* window.
TickPastRetention ==
    /\ now >= MaxTime
    /\ now < MaxTime + Retention
    /\ now' = now + 1
    /\ UNCHANGED <<encrypted_keys, CRON_SECRET, cycle, deleted_count, vault, trade, request>>
    /\ UNCHANGED schedVars
    /\ UNCHANGED sessVars

\* The owner writes the 'hyperliquid' key record of u, with or without a
\* Tier C encrypted_password, or deletes it.
OwnerSetPersistent(u) ==
    /\ \E k \in {NoKey, [live |-> TRUE, encrypted_password |-> NULL]}
                  \cup {[live |-> TRUE, encrypted_password |-> Some(b)] :
                           b \in StoredPasswords} :
        /\ k # encrypted_keys[u]
        /\ encrypted_keys' = [encrypted_keys EXCEPT ![u] = k]
    /\ UNCHANGED <<now, CRON_SECRET, cycle, deleted_count, vault, trade, request>>
    /\ UNCHANGED schedVars
    /\ UNCHANGED sessVars

\* A caller starts getExecutionPassword(u1) or validateExecutionSession(u1).
StartResolution(r, entry) ==
    /\ call[r].pc = "idle"
    /\ call' = [call EXCEPT ![r] =
            [Idle EXCEPT !.pc = IF entry = "validateExecutionSession" THEN "query" ELSE "tierC",
                         !.entry = entry, !.userId = "u1",
                         !.revokedBefore = revokeDone]]
    /\ UNCHANGED <<now, encrypted_keys, CRON_SECRET, cycle, deleted_count, vault, trade, request, execution_sessions, revokeDone>>
    /\ UNCHANGED schedVars

\* getExecutionPassword: the Tier C branch on keyData (NULL: keyError, no
\* row or a failed read).  The stored password if Tier C yields one, NULL
\* to go on to Tier B.
TierCSkipped(keyData) == NULL

TierCStopsOnFailure(keyData) ==
    IF keyData # NULL /\ Val(keyData).encrypted_password # NULL
    THEN LET password == decryptStoredPassword(Val(Val(keyData).encrypted_password))
         IN IF password = NULL THEN Some("") ELSE password
    ELSE NULL

TierC(keyData) ==
    IF keyData # NULL /\ Val(keyData).encrypted_password # NULL
    THEN LET password == decryptStoredPassword(Val(Val(keyData).encrypted_password))
         IN IF Truthy(password) THEN password ELSE NULL
    ELSE NULL

\* getExecutionPassword: the encrypted_keys read (.single(): the row, or
\* keyError when there is none or the read fails) and the Tier C branch.
ResolveTierC(r) ==
    /\ call[r].pc = "tierC"
    /\ \E keyData \in {NULL} \cup {Some(k) : k \in {encrypted_keys[call[r].userId]} \ {NoKey}} :
        LET password == TierC(keyData)
            undecodable == /\ keyData # NULL
                           /\ Val(keyData).encrypted_password # NULL
                           /\ ~Val(Val(keyData).encrypted_password).ok
        IN IF password # NULL
           THEN call' = [call EXCEPT ![r].pc = "done",
                             ![r].keyData = keyData,
                             ![r].result = Some([valid |-> TRUE, password |-> password,
                                                 error |-> NULL, sessionId |-> NULL,
                                                 tier |-> "persistent"])]
           ELSE call' = [call EXCEPT ![r].pc = "query",
                             ![r].keyData = keyData,
                             ![r].logged = IF undecodable
                                 THEN @ \cup {[line |-> "Password decryption failed:",
                                               quoted |-> ""]}
                                 ELSE @]
    /\ UNCHANGED <<now, encrypted_keys, CRON_SECRET, cycle, deleted_count, vault, trade, request, execution_sessions, revokeDone>>
    /\ UNCHANGED schedVars

\* validateExecutionSession: supabase.rpc('get_active_session').
QuerySession(r) ==
    /\ call[r].pc = "query"
    /\ \/ call' = [call EXCEPT ![r].pc = "done",
                       ![r].logged = @ \cup {[line |-> "RPC error:", quoted |-> ""]},
                       ![r].result = Some(Finish(call[r].entry, Invalid("Failed to check session")))]
       \/ /\ get_active_session(execution_sessions, call[r].userId, now) = {}
          /\ call' = [call EXCEPT ![r].pc = "done",
                        ![r].queriedAt = Some(now),
                        ![r].result = Some(Finish(call[r].entry, Invalid("No active session found")))]
       \/ \E x \in get_active_session(execution_sessions, call[r].userId, now) :
            /\ execution_sessions[x].use_count < MaxUseCount
            /\ call' = [call EXCEPT ![r].pc = "check",
                        ![r].queriedAt = Some(now),
                        ![r].revokedAtQuery = execution_sessions[x].revoked,
                        ![r].session = Some(SessionRecord(execution_sessions, x))]
    /\ UNCHANGED <<now, encrypted_keys, CRON_SECRET, cycle, deleted_count, vault, trade, request, execution_sessions, revokeDone>>
    /\ UNCHANGED schedVars

\* validateExecutionSession, from the expiry check to the user check:
\* the result if one of them fails, NULL if the session passes.
CheckedNoUserCheck(session, userId, t) ==
    IF session.expires_at < t
    THEN Some(Invalid("Session expired"))
    ELSE LET payload == decryptSessionToken(Val(session.encrypted_session_token))
         IN IF payload = NULL
            THEN Some(Invalid("Failed to decrypt session"))
            ELSE NULL

Checked(session, userId, t) ==
    IF session.expires_at < t
    THEN Some(Invalid("Session expired"))
    ELSE LET payload == decryptSessionToken(Val(session.encrypted_session_token))
         IN IF payload = NULL
            THEN Some(Invalid("Failed to decrypt session"))
            ELSE IF Val(payload).userId # userId
                 THEN Some(Invalid("Session user mismatch"))
                 ELSE NULL

CheckSession(r) ==
    /\ call[r].pc = "check"
    /\ LET failed == Checked(Val(call[r].session), call[r].userId, now)
           token == Val(Val(call[r].session).encrypted_session_token)
       IN IF failed = Some(Invalid("Failed to decrypt session"))
          THEN \E quoted \in TokenErrorQuotes(token) :
                  call' = [call EXCEPT ![r].pc = "done",
                              ![r].logged = @ \cup {[line |-> "Token decryption failed:",
                                                     quoted |-> quoted]},
                              ![r].result = Some(Finish(call[r].entry, Val(failed)))]
          ELSE IF failed # NULL
          THEN call' = [call EXCEPT ![r].pc = "done",
                            ![r].result = Some(Finish(call[r].entry, Val(failed)))]
          ELSE call' = [call EXCEPT ![r].pc = "usage"]
    /\ UNCHANGED <<now, encrypted_keys, CRON_SECRET, cycle, deleted_count, vault, trade, request, execution_sessions, revokeDone>>
    /\ UNCHANGED schedVars

\* validateExecutionSession: record_session_usage, then the valid result.
\* supabase.rpc reports a failed call in the error member of what it
\* returns, which is not looked at: written = FALSE is the call failing.
RecordUsage(r) ==
    /\ call[r].pc = "usage"
    /\ LET session == Val(call[r].session)
           payload == Val(decryptSessionToken(Val(session.encrypted_session_token)))
       IN /\ \E written \in BOOLEAN :
                execution_sessions' =
                    IF written
                    THEN record_session_usage(execution_sessions, session.session_id, now)
                    ELSE execution_sessions
          /\ call' = [call EXCEPT ![r].pc = "done",
                         ![r].result = Some(Finish(call[r].entry,
                                            Valid(payload.password, session.session_id)))]
    /\ UNCHANGED <<now, encrypted_keys, CRON_SECRET, cycle, deleted_count, vault, trade, request, revokeDone>>
    /\ UNCHANGED schedVars

\* hasExecutionCapability: canExecute and tier from the result of
\* getExecutionPassword.
hasExecutionCapability(r) ==
    /\ call[r].pc = "done"
    /\ call[r].entry = "hasExecutionCapability"
    /\ call[r].capability = NULL
    /\ call' = [call EXCEPT ![r].capability =
                    Some([canExecute |-> Val(call[r].result).password # NULL,
                          tier |-> Val(call[r].result).tier])]
    /\ UNCHANGED <<now, encrypted_keys, CRON_SECRET, cycle, deleted_count, vault, trade, request, execution_sessions, revokeDone>>
    /\ UNCHANGED schedVars

\* The caller has the result.
ReturnResolution(r) ==
    /\ call[r].pc = "done"
    /\ call[r].entry = "hasExecutionCapability" => call[r].capability # NULL
    /\ call' = [call EXCEPT ![r] = Idle]
    /\ UNCHANGED <<now, encrypted_keys, CRON_SECRET, cycle, deleted_count, vault, trade, request, execution_sessions, revokeDone>>
    /\ UNCHANGED schedVars

SessionInit == Init /\ CRON_SECRET # NULL

\* Tier B: both sessions, no Tier C secret stored.
SessionNext ==
    \/ Tick
    \/ \E x \in SessionIds : OwnerCreateSession(x)
    \/ \E x \in SessionIds : revokeSession(x)
    \/ \E r \in Resolvers :
         \E entry \in {"getExecutionPassword", "validateExecutionSession"} :
            StartResolution(r, entry)
    \/ \E r \in Resolvers : ResolveTierC(r)
    \/ \E r \in Resolvers : QuerySession(r)
    \/ \E r \in Resolvers : CheckSession(r)
    \/ \E r \in Resolvers : RecordUsage(r)
    \/ \E r \in Resolvers : ReturnResolution(r)

SessionSpec == SessionInit /\ [][SessionNext]_vars

\* Tier C and Tier B together: getExecutionPassword, called directly or
\* through hasExecutionCapability, over the key record and session x1.
PasswordNext ==
    \/ Tick
    \/ OwnerCreateSession("x1")
    \/ revokeSession("x1")
    \/ OwnerSetPersistent("u1")
    \/ \E r \in Resolvers :
         \E entry \in {"getExecutionPassword", "hasExecutionCapability"} :
            StartResolution(r, entry)
    \/ \E r \in Resolvers : ResolveTierC(r)
    \/ \E r \in Resolvers : QuerySession(r)
    \/ \E r \in Resolvers : CheckSession(r)
    \/ \E r \in Resolvers : RecordUsage(r)
    \/ \E r \in Resolvers : hasExecutionCapability(r)
    \/ \E r \in Resolvers : ReturnResolution(r)

PasswordSpec == SessionInit /\ [][PasswordNext]_vars

\* Sessions, their resolution and the periodic cleanup.
CleanupNext ==
    \/ Tick
    \/ TickPastRetention
    \/ \E x \in SessionIds : OwnerCreateSession(x)
    \/ revokeSession("x1")
    \/ cleanup_expired_sessions
    \/ \E r \in Resolvers : StartResolution(r, "getExecutionPassword")
    \/ \E r \in Resolvers : ResolveTierC(r)
    \/ \E r \in Resolvers : QuerySession(r)
    \/ \E r \in Resolvers : CheckSession(r)
    \/ \E r \in Resolvers : RecordUsage(r)
    \/ \E r \in Resolvers : ReturnResolution(r)

CleanupSpec == SessionInit /\ [][CleanupNext]_vars

\* The client stores session x for u1 with a token that decrypts to the
\* bare password.
OwnerCreateRawSession(x) ==
    /\ ~execution_sessions[x].live
    /\ \E e \in ExpiryTimes(x) :
        execution_sessions' = [execution_sessions EXCEPT ![x] =
            [live |-> TRUE, user_id |-> "u1", token |-> Some(RawToken(x)),
             expires_at |-> e, revoked |-> FALSE, last_used_at |-> NULL,
             use_count |-> 0]]
    /\ UNCHANGED <<now, encrypted_keys, CRON_SECRET, cycle, deleted_count, vault, trade, request, call, revokeDone>>
    /\ UNCHANGED schedVars

\* Tier B over a session whose token is not a JSON payload (x1) and a
\* well-formed one (x2).
LogNext ==
    \/ Tick
    \/ OwnerCreateRawSession("x1")
    \/ OwnerCreateSession("x2")
    \/ \E r \in Resolvers :
         \E entry \in {"getExecutionPassword", "validateExecutionSession"} :
            StartResolution(r, entry)
    \/ \E r \in Resolvers : ResolveTierC(r)
    \/ \E r \in Resolvers : QuerySession(r)
    \/ \E r \in Resolvers : CheckSession(r)
    \/ \E r \in Resolvers : RecordUsage(r)
    \/ \E r \in Resolvers : ReturnResolution(r)

LogSpec == SessionInit /\ [][LogNext]_vars

(* ------------------------------------------------------------------ *)
(* cron-trigger beside the credential stores                            *)
(* ------------------------------------------------------------------ *)

\* One cron-trigger request over schedule s1, while the owner writes the
\* key record, with or without a Tier C secret, and session x2.
CustodyNext ==
    \/ Tick
    \/ OwnerInsert("s1")
    \/ OwnerSetEnabled("s1")
    \/ OwnerSetPersistent("u1")
    \/ OwnerCreateSession("x2")
    \/ Serve("i1")
    \/ Fetch("i1")
    \/ executeSchedule("i1")
    \/ RecordOutcome("i1")
    \/ Return("i1")

CustodySpec == SessionInit /\ [][CustodyNext]_vars

(* ------------------------------------------------------------------ *)
(* cron-trigger cut off                                                 *)
(* ------------------------------------------------------------------ *)

\* The edge runtime ends the invocation at one of its awaits, past the
\* authentication: nothing after the await runs, no response is sent.
\* serve and executeSchedule set no time bound and register no handler
\* for it.
CutOff(i) ==
    /\ pc[i] \in {"fetch", "exec", "record"}
    /\ pc' = [pc EXCEPT ![i] = "idle"]
    /\ batch' = [batch EXCEPT ![i] = <<>>]
    /\ idx' = [idx EXCEPT ![i] = 0]
    /\ pending' = [pending EXCEPT ![i] = NULL]
    /\ results' = [results EXCEPT ![i] = <<>>]
    /\ request' = [request EXCEPT ![i] = NULL]
    /\ UNCHANGED <<now, cron_schedules, encrypted_keys, CRON_SECRET, cycle, deleted_count, vault, trade, response,
                   authorized, streak, armed, guard>>
    /\ UNCHANGED sessVars

\* One cron-trigger request over schedule s1 that the runtime may cut off.
CutOffNext ==
    \/ Tick
    \/ OwnerInsert("s1")
    \/ OwnerSetEnabled("s1")
    \/ OwnerSetKey("u1")
    \/ Serve("i1")
    \/ Fetch("i1")
    \/ executeSchedule("i1")
    \/ RecordOutcome("i1")
    \/ Return("i1")
    \/ CutOff("i1")

CutOffSpec == Init /\ [][CutOffNext]_vars

(* ------------------------------------------------------------------ *)
(* crypto.ts: decryptBlob                                               *)
(* ------------------------------------------------------------------ *)

\* The parameters decryptBlob fixes: the bytes it takes as the IV, the
\* PBKDF2 iteration count and the AES key length.
IvLength == 12
Iterations == 100000
KeyLength == 256

\* Strings are sequences of characters; TextEncoder and TextDecoder map
\* them to and from UTF-8 bytes.
Chars == {"k", "x"}
Utf8(c) == IF c = "k" THEN 107 ELSE 120
TextEncode(str) == [j \in 1..Len(str) |-> Utf8(str[j])]
TextDecode(bytes) ==
    [j \in 1..Len(bytes) |->
        IF \E c \in Chars : Utf8(c) = bytes[j]
        THEN CHOOSE c \in Chars : Utf8(c) = bytes[j]
        ELSE "\\uFFFD"]

\* The plaintexts a client may have encrypted: the empty string, a
\* private key ethers accepts, and a string it does not accept.
Plaintexts == {<<>>, <<"k">>, <<"x", "k">>}

\* crypto.subtle.deriveKey with PBKDF2: the key is a function of the
\* password, the salt and the derivation parameters, and of nothing else.
PBKDF2(password, saltBytes, iterations, hash, length) ==
    [password |-> password, salt |-> saltBytes, iterations |-> iterations,
     hash |-> hash, length |-> length]

\* One byte of an encrypted blob.  An IV byte carries its value in b; a
\* ciphertext byte is written as what it was computed from (key, IV,
\* position, plaintext byte); the authentication tag covers the key, the
\* IV and the whole plaintext.  flip marks a byte one of whose bits was
\* changed after encryption.
IvByte(n) ==
    [kind |-> "iv", key |-> PBKDF2("", <<>>, 0, "", 0), iv |-> <<>>, j |-> 0, b |-> n,
     pt |-> <<>>, flip |-> FALSE]
CtByte(key, ivBytes, j, b) ==
    [kind |-> "ct", key |-> key, iv |-> ivBytes, j |-> j, b |-> b,
     pt |-> <<>>, flip |-> FALSE]
TagByte(key, ivBytes, pt) ==
    [kind |-> "tag", key |-> key, iv |-> ivBytes, j |-> 0, b |-> 0,
     pt |-> pt, flip |-> FALSE]

\* The values of the IV bytes (flipped bytes apart).
IvValue(iv) == [j \in 1..Len(iv) |-> <<iv[j].b, iv[j].flip>>]

\* AES-GCM: the ciphertext of pt under key and iv, tag last.
AesGcmEncrypt(key, iv, pt) ==
    [j \in 1..(Len(pt) + 1) |->
        IF j <= Len(pt) THEN CtByte(key, IvValue(iv), j, pt[j])
        ELSE TagByte(key, IvValue(iv), pt)]

\* crypto.subtle.decrypt with AES-GCM: the plaintext whose ciphertext
\* under this key and IV is the data, or NULL (OperationError) when
\* there is none.
AesGcmDecrypt(key, iv, ciphertext) ==
    LET fits == {pt \in {TextEncode(t) : t \in Plaintexts} : ciphertext = AesGcmEncrypt(key, iv, pt)}
    IN  IF fits = {} THEN NULL ELSE Some(CHOOSE pt \in fits : TRUE)

\* A base64 string: the bytes it encodes, or not base64 at all.
Base64(bytes) == [ok |-> TRUE, bytes |-> bytes]
NotBase64 == [ok |-> FALSE, bytes |-> <<>>]

\* What decryptBlob gives its caller: the plaintext, or a thrown error
\* with its constructor's name and its message.
Returned(plaintext) ==
    [kind |-> "return", plaintext |-> plaintext, name |-> "", message |-> ""]
Thrown(name, message) ==
    [kind |-> "throw", plaintext |-> <<>>, name |-> name, message |-> message]

decryptBlobShortIv(encryptedBlob, password, salt) ==
    IF ~encryptedBlob.ok \/ ~salt.ok
    THEN Thrown("Error", "Decryption failed: Invalid password or corrupted data")
    ELSE LET encryptedData == encryptedBlob.bytes
             cut == IF IvLength - 1 <= Len(encryptedData) THEN IvLength - 1
                    ELSE Len(encryptedData)
             iv == SubSeq(encryptedData, 1, cut)
             ciphertext == SubSeq(encryptedData, cut + 1, Len(encryptedData))
             derivedKey == PBKDF2(password, salt.bytes, Iterations, "SHA-256",
                                  KeyLength)
             decrypted == AesGcmDecrypt(derivedKey, iv, ciphertext)
         IN  IF decrypted = NULL
             THEN Thrown("Error",
                         "Decryption failed: Invalid password or corrupted data")
             ELSE Returned(TextDecode(Val(decrypted)))

decryptBlob(encryptedBlob, password, salt) ==
    IF ~encryptedBlob.ok \/ ~salt.ok
    THEN Thrown("Error", "Decryption failed: Invalid password or corrupted data")
    ELSE LET encryptedData == encryptedBlob.bytes
             cut == IF IvLength <= Len(encryptedData) THEN IvLength
                    ELSE Len(encryptedData)
             iv == SubSeq(encryptedData, 1, cut)
             ciphertext == SubSeq(encryptedData, cut + 1, Len(encryptedData))
             derivedKey == PBKDF2(password, salt.bytes, Iterations, "SHA-256",
                                  KeyLength)
             decrypted == AesGcmDecrypt(derivedKey, iv, ciphertext)
         IN  IF decrypted = NULL
             THEN Thrown("Error",
                         "Decryption failed: Invalid password or corrupted data")
             ELSE Returned(TextDecode(Val(decrypted)))

\* CredentialVault encrypt: a 256-bit key derived from the password and
\* the salt by PBKDF2 (100,000 iterations, SHA-256), a 96-bit nonce,
\* AES-GCM; the blob is nonce || ciphertext, beside the salt.
encrypt(plaintext, password, saltBytes, nonce) ==
    LET iv == [j \in 1..12 |-> IvByte(nonce)]
        key == PBKDF2(password, saltBytes, 100000, "SHA-256", 256)
    IN  [blob |-> Base64(iv \o AesGcmEncrypt(key, iv, TextEncode(plaintext))),
         salt |-> Base64(saltBytes)]

(* ------------------------------------------------------------------ *)
(* hyperliquid-adapter.ts: executeTrade                                 *)
(* ------------------------------------------------------------------ *)

\* A JavaScript value an asset lookup can produce: a number, a function
\* or undefined.
Num(n) == [type |-> "number", n |-> n]
Undefined == [type |-> "undefined", n |-> 0]

\* map[coin] on the object literal of getAssetIndex: its own properties,
\* then the properties it inherits.
MapLookup(coin) ==
    IF coin = "BTC" THEN Num(0)
    ELSE IF coin = "ETH" THEN Num(1)
    ELSE IF coin = "SOL" THEN Num(4)
    ELSE IF coin \in {"toString", "constructor", "valueOf", "hasOwnProperty"}
         THEN [type |-> "function", n |-> 0]
    ELSE Undefined

\* meta.universe.find(...) then indexOf, the catch included.
MetaIndex(meta, coin) ==
    IF meta.ok /\ \E j \in 1..Len(meta.universe) : meta.universe[j] = coin
    THEN Num((CHOOSE j \in 1..Len(meta.universe) :
                 /\ meta.universe[j] = coin
                 /\ \A h \in 1..(j - 1) : meta.universe[h] # coin) - 1)
    ELSE Num(-1)

\* The answers of the order endpoint.  http is response.status and text
\* the body of a failure; status, response and first are the fields of
\* the JSON body of a 2xx answer, first being the first entry of
\* data.response.data.statuses: a resting order, a filled order, a
\* rejected order, or no entry.
Answer(http, text, status, resp, first) ==
    [http |-> http, text |-> text, status |-> status, response |-> resp,
     first |-> first]
NoStatus == [kind |-> "none", oid |-> 0, error |-> ""]
ExchangeReplies ==
    {Answer("500", "down", "", "", NoStatus),
     Answer("429", "slow down", "", "", NoStatus),
     Answer("200", "", "err", "Bad signature", NoStatus),
     Answer("200", "", "err", "", NoStatus)}
    \cup {Answer("200", "", "ok", "", [kind |-> k, oid |-> o, error |-> ""]) :
             k \in {"resting", "filled"}, o \in {0, 7}}
    \cup {Answer("200", "", "ok", "",
                 [kind |-> "error", oid |-> 0, error |-> "Insufficient margin"]),
          Answer("200", "", "ok", "", NoStatus)}

\* Number.prototype.toString of an order id.
OidString(oid) == IF oid = 0 THEN "0" ELSE "7"

\* A TradeResult.  A message is the sequence of its parts.
Success(orderId) == [success |-> TRUE, orderId |-> Some(orderId), error |-> NULL]
Failure(message) == [success |-> FALSE, orderId |-> NULL, error |-> Some(message)]

\* Lines 74..92 with the catch of line 94: what executeTrade makes of
\* the exchange's answer.
ResponseOk(reply) == reply.http = "200"

TradeOutcomeIgnoresStatusError(reply) ==
    IF ~ResponseOk(reply)
    THEN Failure(<<"API Error:", reply.http, reply.text>>)
    ELSE IF reply.status = "ok"
    THEN Success(IF reply.first.kind = "resting"
                 THEN OidString(reply.first.oid) ELSE "filled")
    ELSE Failure(IF reply.response # "" THEN <<reply.response>>
                 ELSE <<"Unknown error">>)

TradeOutcome(reply) ==
    IF ~ResponseOk(reply)
    THEN Failure(<<"API Error:", reply.http, reply.text>>)
    ELSE IF reply.status = "ok"
    THEN IF reply.first.error # ""
         THEN Failure(<<reply.first.error>>)
         ELSE Success(IF reply.first.kind = "resting"
                      THEN OidString(reply.first.oid) ELSE "filled")
    ELSE Failure(IF reply.response # "" THEN <<reply.response>>
                 ELSE <<"Unknown error">>)

(* ------------------------------------------------------------------ *)
(* withDecryptedKey around executeTrade (dealer-cycle)                  *)
(* ------------------------------------------------------------------ *)

\* body.executionPassword and body.encryptionSalt || ''.
SuppliedPasswords == {"pw", "bad"}

\* What a client stored: a plaintext under a password, with salt <<1>>.
StoredSecrets ==
    {encrypt(t, p, <<1>>, 5) : t \in Plaintexts, p \in SuppliedPasswords}

\* body.encryptedKey: a stored blob, a stored blob with one bit changed
\* anywhere, a stored blob cut short, or a string that is not base64.
Blobs ==
    {s.blob : s \in StoredSecrets}
    \cup UNION {{[s.blob EXCEPT !.bytes[p] = [@ EXCEPT !.flip = ~@]] : p \in 1..Len(s.blob.bytes)} :
                   s \in StoredSecrets}
    \cup {[s.blob EXCEPT !.bytes = SubSeq(@, 1, n)] : s \in StoredSecrets, n \in {0, 5}}
    \cup {NotBase64}


OperationReturned(value) ==
    [kind |-> "return", value |-> value, name |-> "", message |-> <<>>]
OperationThrew(name, message) ==
    [kind |-> "throw", value |-> [success |-> FALSE, orderId |-> NULL, error |-> NULL],
     name |-> name, message |-> message]

\* dealer-cycle calls withDecryptedKey; the frame is new.
withDecryptedKey(encryptedBlob, password, salt) ==
    /\ vault.pc \in {"idle", "returned"}
    /\ vault' = [NoCall EXCEPT !.pc = "decrypt",
                               !.encryptedBlob = Some(encryptedBlob),
                               !.password = password,
                               !.salt = Some(salt)]
    /\ trade' = [NoTrade EXCEPT !.earlier =
                     trade.earlier \cup (IF trade.nonce = NULL THEN {}
                                         ELSE {Val(trade.nonce)})]
    /\ UNCHANGED <<now, encrypted_keys, CRON_SECRET, cycle, deleted_count, request>>
    /\ UNCHANGED <<schedVars, sessVars>>

\* decryptedKey = await decryptBlob(...): the key, or the error on its
\* way to the finally block.
Decrypted ==
    /\ vault.pc = "decrypt"
    /\ LET r == decryptBlob(Val(vault.encryptedBlob), vault.password,
                            Val(vault.salt))
       IN  vault' = IF r.kind = "throw"
                    THEN [vault EXCEPT !.pc = "finally",
                              !.produced = Some(OperationThrew(r.name, <<r.message>>))]
                    ELSE [vault EXCEPT !.pc = "operate",
                              !.decryptedKey = Some(r.plaintext)]
    /\ UNCHANGED <<now, encrypted_keys, CRON_SECRET, cycle, deleted_count, request, trade>>
    /\ UNCHANGED <<schedVars, sessVars>>

\* result = await operation(decryptedKey), up to its first await: new
\* ethers.Wallet throws on a key it does not accept, else executeTrade
\* starts for the coin the cycle is at (dealer-cycle passes no cloid), or
\* for any coin and cloid when the caller is not modelled: a coin of the
\* seeded map, one only the exchange lists, one nobody lists, and the name
\* of a member every object inherits from Object.prototype.
Operate ==
    /\ vault.pc = "operate"
    /\ vault' = IF Val(vault.decryptedKey) = <<"k">>
                THEN [vault EXCEPT !.pc = "operating",
                          !.passed = Append(@, vault.decryptedKey)]
                ELSE [vault EXCEPT !.pc = "finally",
                          !.passed = Append(@, vault.decryptedKey),
                          !.produced = Some(OperationThrew("TypeError",
                                                <<"invalid private key">>))]
    /\ \E coin \in (IF cycle.pc = "executing"
                      THEN {cycle.decisions[cycle.idx].coin}
                      ELSE {"BTC", "DOGE", "XYZ", "toString"}),
          cloid \in (IF cycle.pc = "executing" THEN {NULL} ELSE {NULL, Some("c1")}) :
         trade' = IF vault'.pc = "operating"
                  THEN [trade EXCEPT !.pc = "resolve", !.coin = coin, !.cloid = cloid]
                  ELSE trade
    /\ UNCHANGED <<now, encrypted_keys, CRON_SECRET, cycle, deleted_count, request>>
    /\ UNCHANGED <<schedVars, sessVars>>

\* getAssetIndex up to its fetch: the lookup in the seeded map.
Resolve ==
    /\ trade.pc = "resolve"
    /\ LET v == MapLookup(trade.coin)
       IN  trade' = IF v # Undefined
                    THEN [trade EXCEPT !.pc = "sign", !.assetIndex = Some(v)]
                    ELSE [trade EXCEPT !.pc = "meta"]
    /\ UNCHANGED <<now, encrypted_keys, CRON_SECRET, cycle, deleted_count, request, vault>>
    /\ UNCHANGED <<schedVars, sessVars>>

\* The rest of getAssetIndex and the check of line 42.  The exchange
\* lists BTC and DOGE; its metadata endpoint answers with a universe of
\* asset names, or with none (the request or its parsing failed).
MetaFetched ==
    /\ trade.pc = "meta"
    /\ \E meta \in {[ok |-> TRUE, universe |-> <<"BTC", "DOGE">>],
                    [ok |-> TRUE, universe |-> <<"BTC">>],
                    [ok |-> FALSE, universe |-> <<>>]} :
         LET v == MetaIndex(meta, trade.coin)
         IN  trade' = IF v = Num(-1)
                      THEN [trade EXCEPT !.pc = "done", !.meta = Some(meta),
                               !.assetIndex = Some(v),
                               !.result = Some(Failure(<<"Asset", trade.coin, "not found">>))]
                      ELSE [trade EXCEPT !.pc = "sign", !.meta = Some(meta),
                               !.assetIndex = Some(v)]
    /\ UNCHANGED <<now, encrypted_keys, CRON_SECRET, cycle, deleted_count, request, vault>>
    /\ UNCHANGED <<schedVars, sessVars>>

\* The members of the action that vary, as JavaScript values: a, the
\* asset index, and c, options.cloid.
Action(assetIndex, cloid) ==
    <<[key |-> "a", value |-> assetIndex],
      [key |-> "c", value |-> IF cloid = NULL THEN Undefined
                              ELSE [type |-> "string", n |-> 1]]>>

\* JSON.stringify of the action: a member whose value is undefined or a
\* function is left out.
JSONstringify(action) ==
    SelectSeq(action, LAMBDA m : m.value.type \notin {"undefined", "function"})

\* actionHashFn: keccak256, kept as its input, of msgpack.encode(action),
\* the nonce and the vault byte.  msgpack-lite writes every key of the
\* object, with nil for a value that is undefined or a function.
actionHashFn(action, nonce) ==
    [data |-> [j \in 1..Len(action) |->
                  [key |-> action[j].key,
                   value |-> IF action[j].value.type \in {"undefined", "function"}
                             THEN [type |-> "nil", n |-> 0]
                             ELSE action[j].value]],
     nonce |-> nonce, vault |-> 0]

\* nonce = Date.now() and signL1Action.  msgpack.encode is given the asset
\* index as it is: for a value that is not a number it either encodes
\* something or throws.  The signature is kept as the signer's key and
\* the hash signed.
Sign ==
    /\ trade.pc = "sign"
    /\ \/ trade' = [trade EXCEPT !.pc = "submit", !.signed = @ + 1,
                          !.nonce = Some(now),
                          !.signature =
                              Some([signer |-> Val(vault.decryptedKey),
                                    connectionId |->
                                        actionHashFn(Action(Val(trade.assetIndex),
                                                            trade.cloid), now)])]
       \/ /\ Val(trade.assetIndex).type # "number"
          /\ trade' = [trade EXCEPT !.pc = "done",
                          !.result = Some(Failure(<<"msgpack: unsupported type">>))]
    /\ UNCHANGED <<now, encrypted_keys, CRON_SECRET, cycle, deleted_count, request, vault>>
    /\ UNCHANGED <<schedVars, sessVars>>

\* fetch(API_URL) and the reading of its answer.
Submit ==
    /\ trade.pc = "submit"
    /\ \E reply \in ExchangeReplies :
         trade' = [trade EXCEPT !.pc = "done",
                      !.submitted =
                          Append(@, [action |-> JSONstringify(Action(Val(trade.assetIndex),
                                                                     trade.cloid)),
                                     nonce |-> Val(trade.nonce),
                                     signature |-> Val(trade.signature)]),
                      !.reply = Some(reply),
                      !.result = Some(TradeOutcome(reply))]
    /\ UNCHANGED <<now, encrypted_keys, CRON_SECRET, cycle, deleted_count, request, vault>>
    /\ UNCHANGED <<schedVars, sessVars>>

\* executeTrade has returned: the operation's promise resolves.
OperationDone ==
    /\ vault.pc = "operating"
    /\ trade.pc = "done"
    /\ vault' = [vault EXCEPT !.pc = "finally",
                    !.produced = Some(OperationReturned(Val(trade.result)))]
    /\ UNCHANGED <<now, encrypted_keys, CRON_SECRET, cycle, deleted_count, request, trade>>
    /\ UNCHANGED <<schedVars, sessVars>>

\* The finally block, then the return or the rethrow to the caller.
\* if (decryptedKey) passes for a key that is neither null nor "".
Finally ==
    /\ vault.pc = "finally"
    /\ vault' = [vault EXCEPT !.pc = "returned",
                    !.decryptedKey = IF @ # NULL /\ Val(@) # <<>> THEN NULL ELSE @,
                    !.outcome = vault.produced]
    /\ UNCHANGED <<now, encrypted_keys, CRON_SECRET, cycle, deleted_count, request, trade>>
    /\ UNCHANGED <<schedVars, sessVars>>

\* One dealer-cycle execution at a time: decrypt the key, trade, clean up.
SigningNext ==
    \/ \E b \in Blobs, p \in SuppliedPasswords, s \in {Base64(<<1>>), Base64(<<2>>), Base64(<<>>), NotBase64} :
         withDecryptedKey(b, p, s)
    \/ Decrypted
    \/ Operate
    \/ Resolve
    \/ MetaFetched
    \/ Sign
    \/ Submit
    \/ OperationDone
    \/ Finally

SigningSpec == SessionInit /\ [][SigningNext]_vars

\* The same for the stored secrets as they are, with the clock: calls
\* that start in the same millisecond and calls that do not.
NonceNext ==
    \/ Tick
    \/ \E secret \in StoredSecrets : withDecryptedKey(secret.blob, "pw", secret.salt)
    \/ Decrypted
    \/ Operate
    \/ Resolve
    \/ MetaFetched
    \/ Sign
    \/ Submit
    \/ OperationDone
    \/ Finally

NonceSpec == SessionInit /\ [][NonceNext]_vars

(* ------------------------------------------------------------------ *)
(* dealer-cycle                                                         *)
(* ------------------------------------------------------------------ *)

\* The decisions the analysis may produce for a request: one or two, each
\* for a coin of the seeded map or one nobody lists, BUY or HOLD, with a
\* confidence at or above 0.6 (confident) or below.  executed, orderId and
\* error are the members of a decision; ran is history: what the
\* execution of the decision came to, if it was started.
Decision(coin, action, confident) ==
    [coin |-> coin, action |-> action, confident |-> confident,
     executed |-> FALSE, orderId |-> NULL, error |-> NULL, ran |-> NULL]

\* The condition of the execution branch.
ShouldExecuteWithoutFlag(body, decision) ==
    /\ decision.action # "HOLD"
    /\ body.encryptedKey # NULL
    /\ Truthy(body.executionPassword)

ShouldExecute(body, decision) ==
    /\ body.executeTradesIfSignal
    /\ decision.action # "HOLD"
    /\ body.encryptedKey # NULL
    /\ Truthy(body.executionPassword)

\* serve, up to the loop over the decisions: the request body and the
\* decisions of the analysis.
DealerCycle ==
    /\ cycle.pc = "idle"
    /\ vault.pc = "idle"
    /\ \E flag \in BOOLEAN,
          key \in {NULL} \cup {Some(secret) : secret \in StoredSecrets},
          password \in {NULL, Some(""), Some("pw")},
          first \in {Decision(c, a, h) : c \in {"BTC", "XYZ"}, a \in {"BUY", "HOLD"},
                                         h \in BOOLEAN},
          second \in {Decision("BTC", a, TRUE) : a \in {"BUY", "HOLD"}} :
         cycle' = [NoCycle EXCEPT !.pc = "loop", !.executeTradesIfSignal = flag,
                                  !.encryptedKey = key,
                                  !.executionPassword = password,
                                  !.decisions = <<first, second>>, !.idx = 1]
    /\ UNCHANGED <<now, encrypted_keys, CRON_SECRET, deleted_count, request, vault, trade>>
    /\ UNCHANGED <<schedVars, sessVars>>

\* One turn of the loop, up to the await of withDecryptedKey: the decision
\* is passed over, or its execution starts.
ProcessDecision ==
    /\ cycle.pc = "loop"
    /\ cycle.idx <= Len(cycle.decisions)
    /\ LET decision == cycle.decisions[cycle.idx]
       IN IF decision.confident /\ ShouldExecute(cycle, decision)
          THEN /\ cycle' = [cycle EXCEPT !.pc = "executing"]
               /\ vault' = [NoCall EXCEPT
                               !.pc = "decrypt",
                               !.encryptedBlob = Some(Val(cycle.encryptedKey).blob),
                               !.password = Val(cycle.executionPassword),
                               !.salt = Some(Val(cycle.encryptedKey).salt)]
               /\ trade' = [NoTrade EXCEPT !.earlier =
                                trade.earlier \cup (IF trade.nonce = NULL THEN {}
                                                    ELSE {Val(trade.nonce)})]
          ELSE /\ cycle' = [cycle EXCEPT !.idx = @ + 1]
               /\ UNCHANGED <<vault, trade>>
    /\ UNCHANGED <<now, encrypted_keys, CRON_SECRET, deleted_count, request>>
    /\ UNCHANGED <<schedVars, sessVars>>

\* The decision after withDecryptedKey has returned orderResult or thrown
\* execError.
SettledExecutedOnReturn(decision, outcome) ==
    IF outcome.kind = "return"
    THEN [decision EXCEPT !.executed = TRUE, !.orderId = outcome.value.orderId]
    ELSE [decision EXCEPT !.error = Some(outcome.message)]

Settled(decision, outcome) ==
    IF outcome.kind = "return"
    THEN IF outcome.value.success
         THEN [decision EXCEPT !.executed = TRUE, !.orderId = outcome.value.orderId]
         ELSE [decision EXCEPT !.error = outcome.value.error]
    ELSE [decision EXCEPT !.error = Some(outcome.message)]

\* The rest of the turn: the result or the catch, then the next decision.
ExecutionReturned ==
    /\ cycle.pc = "executing"
    /\ vault.pc = "returned"
    /\ cycle' = [cycle EXCEPT
                    !.pc = "loop",
                    !.idx = @ + 1,
                    !.decisions[cycle.idx] =
                        [Settled(@, Val(vault.outcome)) EXCEPT
                            !.ran = Some([outcome |-> Val(vault.outcome),
                                          signed |-> trade.signed,
                                          reply |-> trade.reply])]]
    /\ UNCHANGED <<now, encrypted_keys, CRON_SECRET, deleted_count, request, vault, trade>>
    /\ UNCHANGED <<schedVars, sessVars>>

\* serve after the loop: the response with the decisions.
Respond ==
    /\ cycle.pc = "loop"
    /\ cycle.idx > Len(cycle.decisions)
    /\ cycle' = [cycle EXCEPT !.pc = "done",
                    !.response = Some([success |-> TRUE, decisions |-> cycle.decisions])]
    /\ UNCHANGED <<now, encrypted_keys, CRON_SECRET, deleted_count, request, vault, trade>>
    /\ UNCHANGED <<schedVars, sessVars>>

\* One dealer-cycle request.
CycleNext ==
    \/ DealerCycle
    \/ ProcessDecision
    \/ Decrypted
    \/ Operate
    \/ Resolve
    \/ MetaFetched
    \/ Sign
    \/ Submit
    \/ OperationDone
    \/ Finally
    \/ ExecutionReturned
    \/ Respond

CycleSpec == SessionInit /\ [][CycleNext]_vars

(* ------------------------------------------------------------------ *)
(* Properties of the schedule state                                     *)
(* ------------------------------------------------------------------ *)

\* The ids get_due_schedules returns at time t.
DueIds(t) == {r.schedule_id : r \in get_due_schedules(cron_schedules, t)}

\* The invocation takes the step that begins executeSchedule.
ExecuteStarts(i) == pc[i] = "exec" /\ pc'[i] = "record"

\* The invocation takes the step that records a successful / a failed run.
RecordsSuccess(i) == pc[i] = "record" /\ pc'[i] # "record" /\ Val(pending[i]).success
RecordsError(i) == pc[i] = "record" /\ pc'[i] # "record" /\ ~Val(pending[i]).success

\* C1: a schedule is enabled only if the owner's own write set it so: no
\* insert defaults enabled to true, and no get_due_schedules,
\* record_schedule_success, record_schedule_error or cron-trigger step
\* turns enabled from false to true.
C1_EnabledOnlyByOwner ==
    \A s \in ScheduleIds :
        (cron_schedules[s].live /\ cron_schedules[s].enabled) => authorized[s]

\* A schedule that record_schedule_error has switched off stays off.
C1_Witness ==
    \E s \in ScheduleIds :
        /\ cron_schedules[s].live
        /\ ~cron_schedules[s].enabled
        /\ cron_schedules[s].last_error # NULL
        /\ cron_schedules[s].consecutive_errors >= cron_schedules[s].max_consecutive_errors
        /\ \E i \in Invocations : pc[i] = "idle"

\* C2: whenever executeSchedule begins for a schedule of the batch, that
\* schedule's enabled flag is true at that moment.
C2_EnabledWhenExecuteStarts ==
    [][\A i \in Invocations :
         ExecuteStarts(i) => cron_schedules[Current(i).schedule_id].enabled]_vars

\* C3: get_due_schedules returns a schedule iff it is enabled, has fewer
\* than max_consecutive_errors consecutive errors, and next_run_at is unset
\* or not after now.
C3_DueIffPredicate ==
    \A s \in ScheduleIds :
        s \in DueIds(now) <=>
            /\ cron_schedules[s].live
            /\ cron_schedules[s].enabled
            /\ cron_schedules[s].consecutive_errors
                   < cron_schedules[s].max_consecutive_errors
            /\ \/ cron_schedules[s].next_run_at = NULL
               \/ Val(cron_schedules[s].next_run_at) <= now

\* A fetched batch holds one schedule while the other, disabled with
\* next_run_at unset, was left out.
C3_Witness ==
    /\ pc["i1"] = "exec"
    /\ Len(batch["i1"]) = 1
    /\ \E s \in ScheduleIds :
        /\ s # batch["i1"][1].schedule_id
        /\ cron_schedules[s].live
        /\ ~cron_schedules[s].enabled
        /\ cron_schedules[s].next_run_at = NULL
        /\ s \notin DueIds(now)

\* C4: counting record_schedule_error calls from a state where the schedule
\* is enabled with no errors (a record_schedule_success starts the count
\* again), consecutive_errors equals the count, and enabled is true exactly
\* while the count is below max_consecutive_errors.
C4_AutoDisableAtNth ==
    \A s \in ScheduleIds :
        (cron_schedules[s].live /\ armed[s]) =>
            /\ cron_schedules[s].consecutive_errors = streak[s]
            /\ cron_schedules[s].enabled
                   <=> streak[s] < cron_schedules[s].max_consecutive_errors

\* The MaxErrLimit-th error in a row has just switched the schedule off.
C4_Witness ==
    \E s \in ScheduleIds :
        /\ armed[s]
        /\ cron_schedules[s].max_consecutive_errors = MaxErrLimit
        /\ streak[s] = MaxErrLimit
        /\ ~cron_schedules[s].enabled

\* C5: record_schedule_success at time T sets last_run_at = T and
\* next_run_at = T + interval_seconds, adds one to run_count, zeroes
\* consecutive_errors, clears last_error, and changes nothing else in the
\* row and no other row.
C5_SuccessEffect ==
    [][\A i \in Invocations :
         RecordsSuccess(i) =>
            LET id == Current(i).schedule_id
                old == cron_schedules[id]
                new == cron_schedules'[id]
            IN /\ old.live
               /\ new.last_run_at = Some(now)
               /\ new.next_run_at = Some(now + old.interval_seconds)
               /\ new.run_count = old.run_count + 1
               /\ new.consecutive_errors = 0
               /\ new.last_error = NULL
               /\ new.enabled = old.enabled
               /\ new.interval_seconds = old.interval_seconds
               /\ new.coins = old.coins
               /\ new.max_consecutive_errors = old.max_consecutive_errors
               /\ new.user_id = old.user_id
               /\ new.live
               /\ \A o \in ScheduleIds \ {id} : cron_schedules'[o] = cron_schedules[o]]_vars

\* A success was recorded after an error, next to another schedule.
C5_Witness ==
    \E s, o \in ScheduleIds :
        /\ s # o
        /\ cron_schedules[o].live
        /\ cron_schedules[s].run_count = 2
        /\ cron_schedules[s].last_run_at = Some(now)
        /\ cron_schedules[s].last_error = NULL

\* C6: record_schedule_error at time T stores the message, adds one to
\* consecutive_errors, switches enabled off iff the new count reaches
\* max_consecutive_errors (else leaves enabled alone), sets
\* next_run_at = T + interval_seconds, and leaves run_count and last_run_at.
C6_ErrorEffect ==
    [][\A i \in Invocations :
         RecordsError(i) =>
            LET id == Current(i).schedule_id
                old == cron_schedules[id]
                new == cron_schedules'[id]
                reached == old.consecutive_errors + 1 >= old.max_consecutive_errors
            IN /\ old.live
               /\ new.last_error = Val(pending[i]).error
               /\ new.last_error # NULL
               /\ new.consecutive_errors = old.consecutive_errors + 1
               /\ reached => ~new.enabled
               /\ ~reached => new.enabled = old.enabled
               /\ new.next_run_at = Some(now + old.interval_seconds)
               /\ new.run_count = old.run_count
               /\ new.last_run_at = old.last_run_at]_vars

\* An error was recorded that did not reach the limit, after a success.
C6_Witness ==
    \E s \in ScheduleIds :
        /\ cron_schedules[s].enabled
        /\ cron_schedules[s].consecutive_errors = 1
        /\ cron_schedules[s].last_error = Some(NoKeyMessage)
        /\ cron_schedules[s].run_count = 1
        /\ cron_schedules[s].next_run_at = Some(now + cron_schedules[s].interval_seconds)

\* C7: after a success or an error was recorded at T with interval I (and
\* no owner edit since), next_run_at is T + I and get_due_schedules does not
\* return the schedule at any time before T + I.
C7_Backoff ==
    \A s \in ScheduleIds :
        (cron_schedules[s].live /\ guard[s] # NULL) =>
            /\ cron_schedules[s].next_run_at = guard[s]
            /\ \A t \in 0..(Val(guard[s]) - 1) : s \notin DueIds(t)

\* The schedule is enabled, below its error limit, and waits for
\* next_run_at = T + MaxInterval after an error was recorded.
C7_Witness ==
    \E s \in ScheduleIds :
        /\ guard[s] # NULL
        /\ now < Val(guard[s])
        /\ cron_schedules[s].enabled
        /\ cron_schedules[s].interval_seconds = MaxInterval
        /\ cron_schedules[s].last_error # NULL
        /\ cron_schedules[s].consecutive_errors
               < cron_schedules[s].max_consecutive_errors

(* ------------------------------------------------------------------ *)
(* Properties of password resolution                                    *)
(* ------------------------------------------------------------------ *)

\* A getExecutionPassword call that has its result.
Resolved(r) == call[r].pc = "done" /\ call[r].entry = "getExecutionPassword"

\* The call's result carries a password taken from a session.
FromSessionPassword(r) ==
    /\ call[r].pc = "done"
    /\ Val(call[r].result).password # NULL
    /\ Val(call[r].result).tier # "persistent"

\* Session x could serve u1 now: a usable row with a sound token.
UsableGood(x) ==
    /\ execution_sessions[x].live
    /\ execution_sessions[x].user_id = "u1"
    /\ ~execution_sessions[x].revoked
    /\ execution_sessions[x].expires_at > now
    /\ execution_sessions[x].token
           = Some(GoodToken(x, "u1", execution_sessions[x].expires_at))

\* C8 as stated: whenever the owner's key record carries a decryptable
\* persistent secret, getExecutionPassword returns the Tier C password with
\* tier = 'persistent'.
C8_TierCWheneverDecryptable ==
    \A r \in Resolvers :
        (/\ Resolved(r)
         /\ call[r].keyData # NULL
         /\ Val(call[r].keyData).encrypted_password # NULL
         /\ Val(Val(call[r].keyData).encrypted_password).ok)
        => /\ Val(call[r].result).tier = "persistent"
           /\ Val(call[r].result).password
                  = Some(Val(Val(call[r].keyData).encrypted_password).password)

\* C8, amended: whenever the read of the owner's key record succeeds and the
\* record carries a persistent secret that decrypts to a non-empty password,
\* getExecutionPassword returns that password with tier = 'persistent',
\* whatever sessions the owner has, and does not consult Tier B.
C8_TierCBeforeTierB ==
    \A r \in Resolvers :
        (/\ Resolved(r)
         /\ call[r].keyData # NULL
         /\ Val(call[r].keyData).encrypted_password # NULL
         /\ Val(Val(call[r].keyData).encrypted_password).ok
         /\ Val(Val(call[r].keyData).encrypted_password).password # "")
        => /\ Val(call[r].result).tier = "persistent"
           /\ Val(call[r].result).password
                  = Some(Val(Val(call[r].keyData).encrypted_password).password)
           /\ call[r].queriedAt = NULL
           /\ call[r].session = NULL

\* Tier C answered while a usable session with a sound token was there.
C8_Witness ==
    \E r \in Resolvers :
        /\ Resolved(r)
        /\ Val(call[r].result).tier = "persistent"
        /\ Val(call[r].result).password = Some(PersistentPassword)
        /\ \E x \in SessionIds : UsableGood(x)

\* C9: a password taken from a session comes from a row that, when the
\* resolution read it, was not revoked and had expires_at in the future.
C9_NeverExpiredOrRevoked ==
    \A r \in Resolvers :
        FromSessionPassword(r) =>
            /\ call[r].session # NULL
            /\ Val(call[r].result).sessionId = Some(Val(call[r].session).session_id)
            /\ call[r].revokedAtQuery = FALSE
            /\ Val(call[r].session).expires_at > Val(call[r].queriedAt)

\* The owner's only session, unrevoked with a sound token, has expired:
\* the resolution finds no session.
C9_Witness ==
    \E r \in Resolvers :
        /\ call[r].pc = "done"
        /\ call[r].queriedAt = Some(now)
        /\ Val(call[r].result).password = NULL
        /\ Val(call[r].result).error = Some("No active session found")
        /\ execution_sessions["x1"].live
        /\ ~execution_sessions["x1"].revoked
        /\ execution_sessions["x1"].expires_at <= now
        /\ execution_sessions["x1"].token
               = Some(GoodToken("x1", "u1", execution_sessions["x1"].expires_at))
        /\ ~execution_sessions["x2"].live

\* C10: a resolution that starts after revokeSession(id) has returned true
\* never obtains session id: it neither returns its password nor records
\* usage on it.
C10_RevokedFailsClosed ==
    \A r \in Resolvers :
        /\ call[r].session # NULL
              => Val(call[r].session).session_id \notin call[r].revokedBefore
        /\ (call[r].pc = "done" /\ Val(call[r].result).sessionId # NULL)
              => Val(Val(call[r].result).sessionId) \notin call[r].revokedBefore
        /\ \A x \in revokeDone : execution_sessions[x].live => execution_sessions[x].revoked

\* A resolution started after the revocation of an unexpired session with
\* a sound token, the owner's only one, and found no session.
C10_Witness ==
    \E r \in Resolvers :
        /\ call[r].pc = "done"
        /\ "x1" \in call[r].revokedBefore
        /\ Val(call[r].result).password = NULL
        /\ Val(call[r].result).error = Some("No active session found")
        /\ execution_sessions["x1"].expires_at > now
        /\ execution_sessions["x1"].token
               = Some(GoodToken("x1", "u1", execution_sessions["x1"].expires_at))
        /\ execution_sessions["x1"].use_count = 1
        /\ execution_sessions["x1"].last_used_at # NULL
        /\ ~execution_sessions["x2"].live

\* The payload of the token of the session the call holds (NULL: none held,
\* or the token does not decode).
HeldPayload(r) ==
    IF call[r].session = NULL
    THEN NULL
    ELSE decryptSessionToken(Val(Val(call[r].session).encrypted_session_token))

\* The call reaches its result in this step.
Returns(r) == call[r].pc # "done" /\ call'[r].pc = "done"

\* C11: validateExecutionSession returns a password only when the userId
\* decoded from the session token equals the requested userId; while the
\* call holds a session whose token names another user, no step records
\* usage on that session, and the call's result is valid = false with no
\* password.
C11_OwnerMismatchRejected ==
    [][\A r \in Resolvers :
          /\ (Returns(r) /\ Val(call'[r].result).sessionId # NULL
                  /\ Val(call'[r].result).password # NULL)
                => /\ HeldPayload(r) # NULL
                   /\ Val(HeldPayload(r)).userId = call[r].userId
          /\ (HeldPayload(r) # NULL /\ Val(HeldPayload(r)).userId # call[r].userId)
                => /\ LET x == Val(call[r].session).session_id
                      IN /\ execution_sessions'[x].use_count = execution_sessions[x].use_count
                         /\ execution_sessions'[x].last_used_at
                                = execution_sessions[x].last_used_at
                   /\ call'[r].pc # "usage"
                   /\ Returns(r) => /\ ~Val(call'[r].result).valid
                                    /\ Val(call'[r].result).password = NULL
    ]_vars

\* validateExecutionSession(u1) found u1's unexpired session x1, whose token
\* names u2, and answered 'Session user mismatch' with no usage recorded.
C11_Witness ==
    \E r \in Resolvers :
        /\ call[r].pc = "done"
        /\ call[r].entry = "validateExecutionSession"
        /\ call[r].session # NULL
        /\ Val(call[r].session).session_id = "x1"
        /\ Val(HeldPayload(r)).userId = "u2"
        /\ Val(call[r].result).error = Some("Session user mismatch")
        /\ Val(call[r].result).password = NULL
        /\ execution_sessions["x1"].user_id = "u1"
        /\ execution_sessions["x1"].expires_at > now
        /\ execution_sessions["x1"].use_count = 0

\* C12: a password taken from a session comes from a token whose payload
\* expiresAt had not passed when the resolution read the session, also
\* when the row's expires_at is still in the future.
C12_PayloadExpiryVerified ==
    \A r \in Resolvers :
        (FromSessionPassword(r) /\ HeldPayload(r) # NULL)
            => Val(HeldPayload(r)).expiresAt >= Val(call[r].queriedAt)

\* A call of getExecutionPassword, direct or through hasExecutionCapability,
\* that has its result.
PasswordResolved(r) == call[r].pc = "done" /\ call[r].entry # "validateExecutionSession"

\* C13: getExecutionPassword returns password = null exactly when tier is
\* 'none', and then with an error message; a non-null password exactly when
\* tier is 'persistent' or 'session'; hasExecutionCapability reports
\* canExecute = true exactly when the password is non-null, with the same
\* tier.
C13_TierMatchesPassword ==
    \A r \in Resolvers :
        PasswordResolved(r) =>
            LET res == Val(call[r].result)
            IN /\ res.tier \in {"persistent", "session", "none"}
               /\ res.password = NULL <=> res.tier = "none"
               /\ res.tier = "none" => Truthy(res.error)
               /\ res.password # NULL => Truthy(res.password)
               /\ call[r].capability # NULL =>
                     /\ Val(call[r].capability).canExecute <=> res.password # NULL
                     /\ Val(call[r].capability).tier = res.tier

\* hasExecutionCapability answered canExecute = false, tier 'none' for an
\* owner whose only session carries an empty password.
C13_Witness ==
    \E r \in Resolvers :
        /\ PasswordResolved(r)
        /\ call[r].capability = Some([canExecute |-> FALSE, tier |-> "none"])
        /\ Val(call[r].result).error = Some("No valid session or stored password")
        /\ HeldPayload(r) # NULL
        /\ Val(HeldPayload(r)).password = ""

\* The sessions of the user the call resolves for.
SessionsOf(r) ==
    {x \in SessionIds : execution_sessions[x].live
                           /\ execution_sessions[x].user_id = call[r].userId}

\* C14: when every tier fails and the session store answered, the error of
\* getExecutionPassword tells three causes apart: 'No active session found'
\* when the owner has no session at all, 'Session expired' when the owner's
\* sessions (none revoked) have all expired, 'Failed to decrypt session'
\* when the unexpired session's token does not decode.
C14_ThreeCausesThreeMessages ==
    [][\A r \in Resolvers :
          (/\ Returns(r)
           /\ call[r].entry # "validateExecutionSession"
           /\ Val(call'[r].result).tier = "none"
           /\ call'[r].queriedAt # NULL)
          => LET error == Val(call'[r].result).error
             IN /\ SessionsOf(r) = {} => error = Some("No active session found")
                /\ (/\ SessionsOf(r) # {}
                    /\ \A x \in SessionsOf(r) :
                          /\ ~execution_sessions[x].revoked
                          /\ execution_sessions[x].expires_at < now)
                      => error = Some("Session expired")
                /\ (/\ call[r].session # NULL
                    /\ Val(call[r].session).expires_at >= now
                    /\ HeldPayload(r) = NULL)
                      => error = Some("Failed to decrypt session")
    ]_vars

(* ------------------------------------------------------------------ *)
(* Properties of the cron-trigger request                               *)
(* ------------------------------------------------------------------ *)

\* The x-cron-secret header is missing or is not the configured secret.
BadSecret(h) == h = NULL \/ CRON_SECRET = NULL \/ Val(h) # Val(CRON_SECRET)

\* C15: a request whose x-cron-secret is missing or differs from
\* CRON_SECRET, configured or not, is answered 401 in its first step, which
\* changes no schedule; it never reaches get_due_schedules, holds no batch
\* and runs nothing.
C15_UnauthorizedRejected ==
    [][\A i \in Invocations :
          (pc'[i] # "idle" /\ BadSecret(request'[i]))
          => /\ pc'[i] = "done"
             /\ response'[i] = Some(Unauthorized)
             /\ batch'[i] = <<>>
             /\ results'[i] = <<>>
             /\ pending'[i] = NULL
             /\ pc[i] = "idle" => cron_schedules' = cron_schedules
    ]_vars

\* With CRON_SECRET not configured, a request without the header got 401
\* while a schedule was due.
C15_Witness ==
    \E i \in Invocations :
        /\ CRON_SECRET = NULL
        /\ pc[i] = "done"
        /\ request[i] = NULL
        /\ response[i] = Some(Unauthorized)
        /\ DueIds(now) # {}

CanResolve(u, t) ==
    \/ TierC(IF encrypted_keys[u].live THEN Some(encrypted_keys[u]) ELSE NULL) # NULL
    \/ \E x \in get_active_session(execution_sessions, u, t) :
          LET session == SessionRecord(execution_sessions, x)
          IN /\ Checked(session, u, t) = NULL
             /\ Truthy(Some(Val(session.encrypted_session_token).password))

\* What SessionCustodian offers a caller.
CustodianCalls == {"getExecutionPassword", "validateExecutionSession", "hasExecutionCapability"}

C19_NoTradeWithoutPassword ==
    \A i \in Invocations :
        pending[i] # NULL =>
            LET outcome == Val(pending[i])
            IN /\ outcome.calls \cap {"withDecryptedKey", "executeTrade"} = {}
               /\ outcome.calls \cap CustodianCalls = {}
               /\ outcome.success => outcome.calls = AnalysisOnly
               /\ ~outcome.success => outcome.error # NULL /\ outcome.calls = KeyRead

\* An analysis-only run has finished for an owner who has a key row but no
\* resolvable password.
C19_Witness ==
    \E i \in Invocations :
        /\ pc[i] = "record"
        /\ Val(pending[i]).success
        /\ Val(pending[i]).calls = AnalysisOnly
        /\ encrypted_keys[Current(i).user_id].live
        /\ ~CanResolve(Current(i).user_id, now)

(* ------------------------------------------------------------------ *)
(* Properties of overlapping cron-trigger requests                      *)
(* ------------------------------------------------------------------ *)

\* The invocation is about to record on a row whose next_run_at lies in the
\* future: the row was due when the invocation fetched it, so another
\* invocation has recorded this due window since.
StaleRead(i) ==
    /\ pc[i] = "record"
    /\ cron_schedules[Current(i).schedule_id].next_run_at # NULL
    /\ Val(cron_schedules[Current(i).schedule_id].next_run_at) > now

\* C20: the success/error write of an invocation holding a stale read of
\* the schedule modifies neither next_run_at nor run_count nor
\* consecutive_errors, so one due window is recorded at most once.
C20_StaleWriteChangesNothing ==
    [][\A i \in Invocations :
          (StaleRead(i) /\ pc'[i] # "record")
          => LET row == cron_schedules[Current(i).schedule_id]
                 after == cron_schedules'[Current(i).schedule_id]
             IN /\ after.next_run_at = row.next_run_at
                /\ after.run_count = row.run_count
                /\ after.consecutive_errors = row.consecutive_errors
    ]_vars

(* ------------------------------------------------------------------ *)
(* Properties of the recording functions                                *)
(* ------------------------------------------------------------------ *)

\* run_count, consecutive_errors, enabled and last_error of schedule s are
\* the same in both tables.
SameRecord(a, b, s) ==
    /\ a[s].run_count = b[s].run_count
    /\ a[s].consecutive_errors = b[s].consecutive_errors
    /\ a[s].enabled = b[s].enabled
    /\ a[s].last_error = b[s].last_error

\* C21: record_schedule_success(id) and record_schedule_error(id, message)
\* are idempotent by schedule id: on every table the program reaches, the
\* same call applied a second time leaves run_count, consecutive_errors,
\* enabled and last_error as they were after the first.
C21_RecordIdempotent ==
    \A s \in ScheduleIds :
        cron_schedules[s].live =>
            LET success1 == record_schedule_success(cron_schedules, s, now)
                success2 == record_schedule_success(success1, s, now)
                error1 == record_schedule_error(cron_schedules, s, NoKeyMessage, now)
                error2 == record_schedule_error(error1, s, NoKeyMessage, now)
            IN /\ SameRecord(success1, success2, s)
               /\ SameRecord(error1, error2, s)

(* ------------------------------------------------------------------ *)
(* Properties of a cron-trigger request that is cut off                 *)
(* ------------------------------------------------------------------ *)

\* C22: a schedule run that has started ends only with its outcome
\* recorded: whatever ends the run, also the invocation being cut off
\* before the run returns, an outcome is written to the schedule's row (an
\* error, if the run did not complete).
C22_StartedRunIsRecorded ==
    [][\A i \in Invocations :
          (pc[i] = "record" /\ pc'[i] # "record")
          => LET id == Current(i).schedule_id
                 row == cron_schedules[id]
                 after == cron_schedules'[id]
             IN \/ /\ after.run_count = row.run_count + 1
                   /\ after.last_error = NULL
                \/ /\ after.consecutive_errors = row.consecutive_errors + 1
                   /\ after.last_error # NULL
    ]_vars

(* ------------------------------------------------------------------ *)
(* Properties of repeated failure                                       *)
(* ------------------------------------------------------------------ *)

\* C23: the failed runs recorded for a schedule since its last success or
\* owner edit never number more than max_consecutive_errors, also when
\* invocations overlap; once they number that many the schedule is
\* disabled with last_error set and is not due.
C23_NoRetryForever ==
    \A s \in ScheduleIds :
        cron_schedules[s].live =>
            /\ streak[s] <= cron_schedules[s].max_consecutive_errors
            /\ streak[s] >= cron_schedules[s].max_consecutive_errors
                  => /\ ~cron_schedules[s].enabled
                     /\ cron_schedules[s].last_error # NULL
                     /\ s \notin DueIds(now)

\* C24: a schedule that record_schedule_error has switched off and that
\* the owner has switched on again (enabled = true by the owner's write,
\* last_error still set) is due as soon as next_run_at has passed.
C24_ReEnableMakesDue ==
    \A s \in ScheduleIds :
        (/\ cron_schedules[s].live
         /\ cron_schedules[s].enabled
         /\ authorized[s]
         /\ cron_schedules[s].last_error # NULL
         /\ cron_schedules[s].next_run_at # NULL
         /\ Val(cron_schedules[s].next_run_at) <= now)
        => s \in DueIds(now)

(* ------------------------------------------------------------------ *)
(* Properties of the custody of the decrypted key                       *)
(* ------------------------------------------------------------------ *)

\* What decryptBlob makes of the inputs of the running call.
DecryptOfCall ==
    decryptBlob(Val(vault.encryptedBlob), vault.password, Val(vault.salt))

\* C25: withDecryptedKey invokes the operation at most once and only
\* with the key a successful decryption gave; when control is back at the
\* caller the local decryptedKey is null, whether the operation returned,
\* the operation threw or the decryption failed; the caller gets what
\* the operation returned or threw; a new call starts with no key.
C25_KeyClearedOnEveryExit ==
    /\ Len(vault.passed) <= 1
    /\ vault.passed # <<>> =>
         /\ DecryptOfCall.kind = "return"
         /\ vault.passed[1] = Some(DecryptOfCall.plaintext)
    /\ vault.pc = "returned" =>
         /\ vault.decryptedKey = NULL
         /\ vault.outcome # NULL
         /\ trade.pc = "done" => Val(vault.outcome) = OperationReturned(Val(trade.result))
         /\ DecryptOfCall.kind = "throw" => Val(vault.outcome).kind = "throw"
    /\ vault.pc = "decrypt" => vault.decryptedKey = NULL /\ vault.passed = <<>>

\* The blob and the salt of the running call are what encrypt made of
\* plaintext t under the password of the call, untouched.
EncryptionOf(t) ==
    /\ Val(vault.salt).ok
    /\ [blob |-> Val(vault.encryptedBlob), salt |-> Val(vault.salt)]
         = encrypt(t, vault.password, Val(vault.salt).bytes, 5)

\* The call is past a decryptBlob that threw.
DecryptFailed ==
    /\ vault.pc \in {"finally", "returned"}
    /\ vault.passed = <<>>
    /\ vault.decryptedKey = NULL
    /\ vault.produced # NULL

\* C26: whenever the password is wrong, a bit of the blob is changed or
\* the input is malformed, decryptBlob fails with a DecryptionError of
\* one and the same message, and a plaintext comes back only from an
\* untouched encryption under the supplied password, and is then the
\* plaintext that was encrypted.
C26_DecryptFailsUniformly ==
    vault.pc \notin {"idle", "decrypt"} =>
        /\ (\A t \in Plaintexts : ~EncryptionOf(t)) =>
             /\ DecryptFailed
             /\ Val(vault.produced).kind = "throw"
             /\ Val(vault.produced).name = "DecryptionError"
             /\ Val(vault.produced).message
                  = <<"Decryption failed: Invalid password or corrupted data">>
        /\ vault.pc = "operate" =>
             \E t \in Plaintexts : EncryptionOf(t) /\ vault.decryptedKey = Some(t)

\* C27: decrypting, with password P, the secret encrypt made of
\* plaintext T under P (blob = 12-byte iv || ciphertext, with its salt)
\* gives exactly T: the key the call holds after decryptBlob, and hands
\* to the operation, is T.
C27_RoundTrip ==
    \A t \in Plaintexts :
        (vault.pc \notin {"idle", "decrypt"} /\ EncryptionOf(t)) =>
            /\ vault.pc = "operate" => vault.decryptedKey = Some(t)
            /\ vault.pc # "operate" => vault.passed = <<Some(t)>>

\* A two-character plaintext encrypted under "bad" has come back.
C27_Witness ==
    /\ vault.pc = "operate"
    /\ vault.password = "bad"
    /\ EncryptionOf(<<"x", "k">>)
    /\ vault.decryptedKey = Some(<<"x", "k">>)

\* The passwords the custody path handles in plaintext.
SecretTexts == {SessionPassword(x) : x \in SessionIds} \cup {PersistentPassword}

\* C28: nothing the password resolution writes to the log quotes a
\* plaintext password or a decoded session payload, and no error message
\* it returns is one.
C28_NoSecretLoggedOrReported ==
    \A r \in Resolvers :
        /\ \A l \in call[r].logged : l.quoted \notin SecretTexts
        /\ (call[r].result # NULL /\ Val(call[r].result).error # NULL)
              => Val(Val(call[r].result).error) \notin SecretTexts

(* ------------------------------------------------------------------ *)
(* Properties of executeTrade                                           *)
(* ------------------------------------------------------------------ *)

\* The coin of the running executeTrade is not one of the seeded map and
\* the exchange does not list it, or its metadata did not come or does
\* not name it.
Unresolvable ==
    /\ trade.coin \notin {"BTC", "ETH", "SOL"}
    /\ \/ trade.coin \notin {"BTC", "DOGE"}
       \/ /\ trade.meta # NULL
          /\ \/ ~Val(trade.meta).ok
             \/ \A j \in 1..Len(Val(trade.meta).universe) :
                   Val(trade.meta).universe[j] # trade.coin

\* C29: for a coin that cannot be resolved to an asset index executeTrade
\* signs nothing, posts nothing to the order endpoint, and returns
\* success = false with the asset-not-found error.
C29_UnresolvedCoinNotTraded ==
    (trade.pc # "idle" /\ Unresolvable) =>
        /\ trade.signed = 0
        /\ trade.submitted = <<>>
        /\ trade.pc = "done" =>
             trade.result = Some(Failure(<<"Asset", trade.coin, "not found">>))

\* The exchange has answered the running executeTrade, which is done.
Answered == trade.pc = "done" /\ trade.reply # NULL

\* The answer is an error: a status that is not 2xx, a body whose status
\* is not 'ok', or an error on the order status; the result is then
\* success = false with the message the exchange sent, if it sent one.
ErrorsCarried ==
    LET reply == Val(trade.reply)
        res == Val(trade.result)
    IN  /\ ~ResponseOk(reply) =>
             /\ ~res.success
             /\ res.error = Some(<<"API Error:", reply.http, reply.text>>)
        /\ (ResponseOk(reply) /\ reply.status # "ok") =>
             /\ ~res.success
             /\ reply.response # "" => res.error = Some(<<reply.response>>)
        /\ (ResponseOk(reply) /\ reply.status = "ok" /\ reply.first.kind = "error") =>
             /\ ~res.success
             /\ res.error = Some(<<reply.first.error>>)

\* C30 as stated: an error answer gives success = false with the upstream
\* message, and a resting or filled order gives success = true with
\* orderId the exchange's order id.
C30_OrderIdIsExchangeId ==
    Answered =>
        /\ ErrorsCarried
        /\ (/\ ResponseOk(Val(trade.reply))
            /\ Val(trade.reply).status = "ok"
            /\ Val(trade.reply).first.kind \in {"resting", "filled"}) =>
               /\ Val(trade.result).success
               /\ Val(trade.result).orderId
                    = Some(OidString(Val(trade.reply).first.oid))

\* C30 as amended: an error answer gives success = false with the
\* upstream message; a resting order gives success = true with orderId
\* the exchange's order id, and a filled order gives success = true with
\* orderId the literal 'filled'.
C30_RestingIdOrFilledLiteral ==
    Answered =>
        /\ ErrorsCarried
        /\ (/\ ResponseOk(Val(trade.reply))
            /\ Val(trade.reply).status = "ok"
            /\ Val(trade.reply).first.kind = "resting") =>
               /\ Val(trade.result).success
               /\ Val(trade.result).orderId
                    = Some(OidString(Val(trade.reply).first.oid))
        /\ (/\ ResponseOk(Val(trade.reply))
            /\ Val(trade.reply).status = "ok"
            /\ Val(trade.reply).first.kind = "filled") =>
               /\ Val(trade.result).success
               /\ Val(trade.result).orderId = Some("filled")

\* A filled order, a rejected order and a failed request have each been
\* answered: this one is the filled order with exchange id 7.
C30_Witness ==
    /\ Answered
    /\ Val(trade.reply).first.kind = "filled"
    /\ Val(trade.reply).first.oid = 7
    /\ Val(trade.result) = Success("filled")

(* ------------------------------------------------------------------ *)
(* Properties of the error counter                                      *)
(* ------------------------------------------------------------------ *)

\* C38: for a schedule that started enabled with consecutive_errors = 0
\* and max_consecutive_errors >= 1, every state reached through
\* cron-trigger invocations, overlapping ones included, has
\* 0 <= consecutive_errors <= max_consecutive_errors, and
\* consecutive_errors = max_consecutive_errors implies enabled = false.
C38_ErrorsWithinLimit ==
    \A s \in ScheduleIds :
        (cron_schedules[s].live /\ armed[s]
            /\ cron_schedules[s].max_consecutive_errors >= 1) =>
            /\ 0 <= cron_schedules[s].consecutive_errors
            /\ cron_schedules[s].consecutive_errors
                   <= cron_schedules[s].max_consecutive_errors
            /\ cron_schedules[s].consecutive_errors
                   = cron_schedules[s].max_consecutive_errors
                  => ~cron_schedules[s].enabled

(* ------------------------------------------------------------------ *)
(* Properties of a run without a key record                             *)
(* ------------------------------------------------------------------ *)

UsableAt(x, u, t) ==
    /\ execution_sessions[x].live
    /\ execution_sessions[x].user_id = u
    /\ execution_sessions[x].revoked = FALSE
    /\ execution_sessions[x].expires_at > t

\* C33: get_active_session hands the resolution a session of the owner
\* that is usable (revoked = false, expires_at > now) and whose expiry no
\* other usable session of the owner exceeds, and it reports no active
\* session only when the owner has no usable one; the resolution goes on
\* with that session only.
C33_LatestUsableSessionResolved ==
    [][\A r \in Resolvers :
          (call[r].pc = "query" /\ call'[r].queriedAt = Some(now))
          => LET u == call[r].userId
             IN IF call'[r].pc = "check"
                THEN LET x == Val(call'[r].session).session_id
                     IN /\ UsableAt(x, u, now)
                        /\ Val(call'[r].session).expires_at
                              = execution_sessions[x].expires_at
                        /\ \A y \in SessionIds :
                              UsableAt(y, u, now)
                              => execution_sessions[y].expires_at
                                    <= execution_sessions[x].expires_at
                ELSE /\ \A y \in SessionIds : ~UsableAt(y, u, now)
                     /\ call'[r].session = NULL
                     /\ Val(call'[r].result).error = Some("No active session found")
    ]_vars

\* The owner's session with the latest expiry has been revoked, and the
\* resolution is going on with the next-latest one, which is usable.
C33_Witness ==
    \E r \in Resolvers, x, y \in SessionIds :
        /\ call[r].pc = "check"
        /\ call[r].queriedAt = Some(now)
        /\ Val(call[r].session).session_id = x
        /\ UsableAt(x, call[r].userId, now)
        /\ execution_sessions[y].live
        /\ execution_sessions[y].user_id = call[r].userId
        /\ execution_sessions[y].revoked
        /\ execution_sessions[y].expires_at > execution_sessions[x].expires_at

(* ------------------------------------------------------------------ *)
(* Properties of the usage counters                                     *)
(* ------------------------------------------------------------------ *)

\* The sessions' counters are what they were, but for session x, whose
\* use_count is n higher.
CountersMoved(x, n) ==
    \A y \in SessionIds :
        /\ execution_sessions'[y].use_count
              = execution_sessions[y].use_count + (IF y = x THEN n ELSE 0)
        /\ y # x => execution_sessions'[y].last_used_at = execution_sessions[y].last_used_at

\* C34: a getExecutionPassword call that ends with tier = 'session' has
\* added exactly one to the resolved session's use_count and set its
\* last_used_at, unless the usage write failed, and it returns the password
\* either way; a call that ends with tier = 'none' or 'persistent' has
\* changed no session's use_count or last_used_at.
C34_UsageCountedOnSuccessOnly ==
    [][\A r \in Resolvers :
          (call[r].pc # "done" /\ call'[r].pc = "done" /\ call[r].entry # "validateExecutionSession")
          => LET result == Val(call'[r].result)
             IN IF result.tier = "session"
                THEN /\ result.password # NULL
                     /\ \/ /\ CountersMoved(Val(result.sessionId), 1)
                           /\ execution_sessions'[Val(result.sessionId)].last_used_at
                                  = Some(now)
                        \/ CountersMoved(Val(result.sessionId), 0)
                ELSE \A x \in SessionIds : CountersMoved(x, 0)
    ]_vars

(* ------------------------------------------------------------------ *)
(* Properties of a persistent secret that does not decrypt              *)
(* ------------------------------------------------------------------ *)

\* The getExecutionPassword call of r has read a key record whose
\* persistent secret cannot be decrypted, and ends in this step.
EndsUndecrypted(r) ==
    /\ call[r].pc # "done"
    /\ call'[r].pc = "done"
    /\ call'[r].keyData # NULL
    /\ Val(call'[r].keyData).encrypted_password # NULL
    /\ ~Val(Val(call'[r].keyData).encrypted_password).ok

\* C39 as stated: when the persistent secret cannot be decrypted,
\* getExecutionPassword goes on to Tier B and returns the session password
\* with tier = 'session' if the session it was handed is usable, and
\* tier = 'none' with the session error otherwise.
C39_FallsThroughToUsableSession ==
    [][\A r \in Resolvers :
          EndsUndecrypted(r)
          => LET result == Val(call'[r].result)
             IN IF /\ call'[r].session # NULL
                   /\ UsableAt(Val(call'[r].session).session_id, call[r].userId, now)
                THEN /\ result.tier = "session"
                     /\ result.password # NULL
                ELSE /\ result.tier = "none"
                     /\ result.password = NULL
                     /\ result.error # NULL
    ]_vars

\* C39, amended: when the persistent secret cannot be decrypted,
\* getExecutionPassword goes on to Tier B and returns the session password
\* with tier = 'session' exactly when the session it was handed has not
\* expired and its token decrypts to a payload naming the user with a
\* non-empty password; otherwise it returns tier = 'none' with the error
\* of the session validation, or 'No valid session or stored password'
\* when the validation passed and the password is empty.
C39_FallsThroughToTierB ==
    [][\A r \in Resolvers :
          EndsUndecrypted(r)
          => LET result == Val(call'[r].result)
                 held == call'[r].session
                 payload == IF held = NULL THEN NULL
                            ELSE decryptSessionToken(Val(Val(held).encrypted_session_token))
                 sound == /\ payload # NULL
                          /\ Val(payload).userId = call[r].userId
                          /\ Val(payload).password # ""
                 tokenError == IF payload = NULL
                               THEN Some("Failed to decrypt session")
                               ELSE IF Val(payload).userId # call[r].userId
                               THEN Some("Session user mismatch")
                               ELSE Some("No valid session or stored password")
             IN /\ result.tier \in {"session", "none"}
                /\ result.tier = "session"
                      => /\ sound
                         /\ result.password = Some(Val(payload).password)
                         /\ result.sessionId = Some(Val(held).session_id)
                /\ (sound /\ Val(held).expires_at >= now) => result.tier = "session"
                /\ result.tier = "none"
                      => /\ result.password = NULL
                         /\ IF held = NULL
                            THEN result.error =
                                    IF call'[r].queriedAt = NULL
                                    THEN Some("Failed to check session")
                                    ELSE Some("No active session found")
                            ELSE \/ /\ result.error = Some("Session expired")
                                    /\ Val(held).expires_at < now
                                 \/ /\ result.error = tokenError
                                    /\ ~sound
    ]_vars

\* A resolution that read an undecryptable persistent secret has ended
\* with the password of the owner's session, tier = 'session'.
C39_Witness ==
    \E r \in Resolvers :
        /\ call[r].pc = "done"
        /\ call[r].keyData # NULL
        /\ Val(call[r].keyData).encrypted_password # NULL
        /\ ~Val(Val(call[r].keyData).encrypted_password).ok
        /\ Val(call[r].result).tier = "session"
        /\ Val(call[r].result).password = Some(SessionPassword("x1"))

(* ------------------------------------------------------------------ *)
(* Properties of the session cleanup                                    *)
(* ------------------------------------------------------------------ *)

\* C37: cleanup_expired_sessions deletes only sessions that are revoked or
\* whose expires_at lies more than the retention window in the past and
\* changes no other row; it deletes no usable session; and at every later
\* time get_active_session returns for every owner the rows, with the
\* token and expiry, it would have returned without the cleanup, while the
\* key records stay as they were, so that no later getExecutionPassword call
\* has another result.
C37_CleanupLeavesResolutionAlone ==
    [][(\E x \in SessionIds : execution_sessions[x].live /\ ~execution_sessions'[x].live)
       => /\ \A x \in SessionIds :
                IF execution_sessions[x].live /\ ~execution_sessions'[x].live
                THEN /\ \/ execution_sessions[x].revoked
                        \/ execution_sessions[x].expires_at + Retention < now
                     /\ ~UsableAt(x, execution_sessions[x].user_id, now)
                ELSE execution_sessions'[x] = execution_sessions[x]
          /\ encrypted_keys' = encrypted_keys
          /\ call' = call
          /\ \A u \in Users, t \in now..(MaxTime + Retention) :
                /\ get_active_session(execution_sessions', u, t)
                      = get_active_session(execution_sessions, u, t)
                /\ \A x \in get_active_session(execution_sessions, u, t) :
                      SessionRecord(execution_sessions', x)
                         = SessionRecord(execution_sessions, x)
    ]_vars

\* No session was ever revoked, and the cleanup has removed the session
\* that expired more than the retention window ago and kept the one that
\* expired later; a resolution run after it has found no active session.
C37_Witness ==
    \E r \in Resolvers :
        /\ deleted_count = Some(1)
        /\ revokeDone = {}
        /\ ~execution_sessions["x1"].live
        /\ execution_sessions["x2"].live
        /\ execution_sessions["x2"].expires_at < now
        /\ call[r].pc = "done"
        /\ call[r].queriedAt = Some(now)
        /\ Val(call[r].result).error = Some("No active session found")

(* ------------------------------------------------------------------ *)
(* Properties of the nonce                                              *)
(* ------------------------------------------------------------------ *)

\* C31: the nonce an executeTrade call signs and submits is distinct from
\* the nonce of every other call and larger than the nonce of every
\* earlier call, also when the calls start within the same millisecond.
C31_NonceDistinctAndIncreasing ==
    /\ trade.nonce # NULL => \A n \in trade.earlier : Val(trade.nonce) > n
    /\ \A j \in 1..Len(trade.submitted) :
          /\ trade.submitted[j].nonce = Val(trade.nonce)
          /\ trade.submitted[j].signature.connectionId.nonce = Val(trade.nonce)

(* ------------------------------------------------------------------ *)
(* Properties of the order of signing and submitting                    *)
(* ------------------------------------------------------------------ *)

\* C35: executeTrade submits an order request only after it has resolved
\* the asset and produced a signature; the action and the nonce in the
\* submitted body are the ones that were hashed and signed, so that the
\* hash of the action as the body carries it, with the body's nonce, is
\* the hash under the signature; and a call in which signing failed ends
\* with success = false and nothing submitted.
C35_SubmittedIsWhatWasSigned ==
    /\ Len(trade.submitted) <= trade.signed
    /\ trade.pc = "submit" => (trade.assetIndex # NULL /\ trade.signature # NULL)
    /\ \A j \in 1..Len(trade.submitted) :
          LET body == trade.submitted[j]
          IN /\ trade.assetIndex # NULL
             /\ body.signature = Val(trade.signature)
             /\ body.nonce = body.signature.connectionId.nonce
             /\ actionHashFn(body.action, body.nonce) = body.signature.connectionId
    /\ (trade.pc = "done" /\ trade.signed = 0)
          => /\ trade.submitted = <<>>
             /\ ~Val(trade.result).success

(* ------------------------------------------------------------------ *)
(* Properties of dealer-cycle                                           *)
(* ------------------------------------------------------------------ *)

\* The request authorizes execution and carries the key and a password.
Authorized ==
    /\ cycle.executeTradesIfSignal
    /\ cycle.encryptedKey # NULL
    /\ cycle.executionPassword # NULL
    /\ Val(cycle.executionPassword) # ""

\* C32: dealer-cycle decrypts the key and calls executeTrade for a coin
\* only if the request sets executeTradesIfSignal, supplies encryptedKey
\* and executionPassword, and the coin's decision is not HOLD; in every
\* other case nothing is decrypted, signed or submitted for the decision
\* and it has executed = false.
C32_ExecutesOnlyWhenAuthorized ==
    /\ \A j \in 1..Len(cycle.decisions) :
          LET decision == cycle.decisions[j]
              actionable == Authorized /\ decision.action # "HOLD"
              started == \/ decision.ran # NULL
                         \/ cycle.pc = "executing" /\ cycle.idx = j
          IN /\ started => actionable
             /\ ~actionable
                   => /\ decision.executed = FALSE
                      /\ decision.orderId = NULL
                      /\ decision.error = NULL
             /\ decision.executed => decision.ran # NULL
    /\ (cycle.pc # "idle"
          /\ \A j \in 1..Len(cycle.decisions) :
                ~(Authorized /\ cycle.decisions[j].action # "HOLD"))
       => /\ vault = NoCall
          /\ trade = NoTrade
    /\ cycle.response # NULL
          => \A j \in 1..Len(cycle.decisions) :
                Val(cycle.response).decisions[j].executed
                   = cycle.decisions[j].executed

\* An authorized request has been answered: the HOLD decision was passed
\* over, the BUY decision was executed.
C32_Witness ==
    /\ cycle.pc = "done"
    /\ Authorized
    /\ cycle.decisions[1].action = "HOLD"
    /\ cycle.decisions[1].ran = NULL
    /\ ~cycle.decisions[1].executed
    /\ cycle.decisions[2].action = "BUY"
    /\ cycle.decisions[2].executed
    /\ trade.submitted # <<>>

\* The execution of decision j failed: the key did not decrypt, the
\* wallet or the signing failed, or the exchange did not accept the order.
ExecutionFailed(j) ==
    /\ cycle.decisions[j].ran # NULL
    /\ LET ran == Val(cycle.decisions[j].ran)
       IN \/ ran.outcome.kind = "throw"
          \/ ran.signed = 0
          \/ ran.reply = NULL
          \/ ~ResponseOk(Val(ran.reply))
          \/ Val(ran.reply).status # "ok"
          \/ Val(ran.reply).first.kind = "error"

\* C36: a decryption, signing or exchange failure while executing one
\* coin leaves that coin's decision with executed = false and error set;
\* the loop goes on to the remaining decisions, each of which is executed
\* if it is to be, and the cycle answers success = true with all the
\* decisions; a decision has executed = true only if its order was
\* accepted by the exchange.
C36_CoinFailureStaysOnItsDecision ==
    /\ \A j \in 1..Len(cycle.decisions) :
          LET decision == cycle.decisions[j]
          IN /\ ExecutionFailed(j)
                   => /\ decision.executed = FALSE
                      /\ decision.error # NULL
                      /\ Val(decision.error) # <<>>
                      /\ decision.orderId = NULL
             /\ decision.executed
                   => /\ ~ExecutionFailed(j)
                      /\ Val(decision.ran).reply # NULL
                      /\ Val(Val(decision.ran).reply).status = "ok"
                      /\ decision.error = NULL
    /\ cycle.pc = "done"
          => /\ Val(cycle.response).success
             /\ Len(Val(cycle.response).decisions) = 2
             /\ \A j \in 1..Len(cycle.decisions) :
                   /\ Val(cycle.response).decisions[j] = cycle.decisions[j]
                   /\ (cycle.decisions[j].confident
                          /\ Authorized /\ cycle.decisions[j].action # "HOLD")
                      => cycle.decisions[j].ran # NULL

\* The first coin's execution failed, the second coin's order was
\* accepted, and the cycle has answered with both.
C36_Witness ==
    /\ cycle.pc = "done"
    /\ ExecutionFailed(1)
    /\ cycle.decisions[1].error # NULL
    /\ cycle.decisions[2].executed
    /\ Val(cycle.response).success

====
